---- MODULE Spec2Model ----
(***************************************************************************)
(* Birmingham City notifier: the preference store (database.py) and the    *)
(* notification scheduler (scheduler.py): reminder planner, one-shot       *)
(* reminder jobs, live-score goal detection and lineup availability.       *)
(*                                                                         *)
(* Time is counted in minutes.  Every cycle reads the clock `now` when it  *)
(* runs (datetime.now()); kickoff instants (utcDate) are minutes on the    *)
(* same axis.                                                              *)
(***************************************************************************)
EXTENDS Integers, Sequences, FiniteSets, TLC

VARIABLES
    users,        \* the users table: chat_id -> row, or NoRow
    now,          \* the wall clock, in minutes
    plannerDue,   \* the */5 cron trigger of this instant has not run yet
    utcDate,      \* gateway data: match id -> kickoff instant
    match_jobs,   \* NotificationScheduler._match_jobs: registered job ids
    jobstore,     \* the timer service's pending one-shot (date) jobs
    fired,        \* per job id, the reminder firings so far (history)
    live_scores,  \* NotificationScheduler._live_scores: match id -> score
    goal_log,     \* the goal messages sent by the latest live-score cycle
    live_polls,   \* the _process_live_match evaluations of the latest cycle
    lineup_sent,  \* NotificationScheduler._lineup_sent: match ids
    lineup_log,   \* the lineup messages sent by the latest lineup cycle
    details_calls,\* the get_match_details calls of the latest lineup cycle
    lineup_count, \* per (chat, match), lineup messages sent so far (history)
    lineup_empty, \* matches whose lineups once came back empty (history)
    lineup_failed,\* chats where the latest lineup cycle's send_message raised
    live_unprocessed, \* matches the latest live-score cycle did not get to
    goal_failed,  \* chats where send_message raised in the latest live cycle
    goal_events,  \* per match, the live cycles that declared a goal (history)
    last_call,    \* the latest Database call: method, arguments and result
    upserted,     \* chat ids passed to get_or_create_user so far (history)
    toggles,      \* per caller, the progress of its toggle_setting call
    toggle_start, \* the users table when the concurrent callers started
    digest_seen,  \* the users the latest digest cycle has processed
    digest_log,   \* the digest messages sent by the latest digest cycle
    digest_errors,\* the errors the latest digest cycle has logged
    running,      \* per cron job, the number of running instances
    missed,       \* cron jobs with a trigger skipped while they run
    admin,        \* config.TELEGRAM_CHAT_ID
    restart_flag, \* the content of the restart flag file, or NoFlag
    update_runs,  \* the number of update.sh processes launched (history)
    last_command  \* the latest /restart: caller, replies, warning logged

reminderVars == <<plannerDue, match_jobs, jobstore, fired>>
goalVars == <<live_scores, goal_log, live_polls, live_unprocessed, goal_failed,
             goal_events>>
lineupVars == <<lineup_sent, lineup_log, details_calls, lineup_count, lineup_empty,
               lineup_failed>>
storeVars == <<last_call, upserted, toggles, toggle_start>>
digestVars == <<digest_seen, digest_log, digest_errors>>
timerVars == <<running, missed>>
botVars == <<admin, restart_flag, update_runs, last_command>>
vars == <<users, now, utcDate, reminderVars, goalVars, lineupVars, storeVars,
          digestVars, timerVars, botVars>>

----------------------------------------------------------------------------
(* Program constants *)

DefaultMorningHour == 9
DefaultReminderMinutes == 30
PlannerPeriod == 5
TwoHours == 120
DayMinutes == 1440

----------------------------------------------------------------------------
(* Identifiers and bounds *)

Subscribers == {"u1", "u2"}
MatchIds == {1, 2}
NoRow == [absent |-> TRUE]
NoName == "None"
\* a utcDate that datetime.fromisoformat rejects
BadDate == -1
\* no entry in _live_scores
NoScore == [absent |-> TRUE]

\* the concurrent callers of toggle_setting
Callers == {"t1", "t2"}

\* no Database call yet
NoCall == [op |-> "none", chat_id |-> "", column |-> "", value |-> -1,
           username |-> NoName, ret |-> -1, row |-> NoRow, rows |-> <<>>]

\* a caller that has not started its toggle_setting call
IdleCaller == [pc |-> "idle", chat_id |-> "", setting_name |-> "", current |-> -1]

\* the ids of the cron jobs start() adds
CronJobs == {"morning_notification", "match_reminder_check",
             "live_score_check", "lineup_check"}

\* the wrapper of a cron job returns: the instance that ran the handler, if
\* the timer service started one, is over
InstanceEnds(job) ==
    /\ running' = [running EXCEPT ![job] = IF @ > 0 THEN @ - 1 ELSE @]
    /\ missed' = missed \ {job}

\* the reminder planner's clock stops after this many cron periods
MaxPlannerTicks == 48
MaxTime == MaxPlannerTicks * PlannerPeriod

\* lead minutes a subscriber may choose in the model (a subset of the
\* buttons set_reminder_{5,10,15,30,60,0})
ReminderInputs == {0, 30, 60}

\* kickoff instants of the two fixtures: 90 minutes and 4 hours from the start
Kickoffs == [m \in MatchIds |-> IF m = 1 THEN 90 ELSE 240]

JobIds == Subscribers \X MatchIds

----------------------------------------------------------------------------
(* Preference store (database.py) *)

\* INSERT INTO users (chat_id, username): the column defaults
\* (mutant) the notification columns default to 0
NewRowOptIn(username) ==
    [username |-> username,
     morning_notification |-> 0,
     morning_notification_hour |-> DefaultMorningHour,
     match_reminder_minutes |-> DefaultReminderMinutes,
     goal_notification |-> 0,
     lineup_notification |-> 0]

\* the row "INSERT INTO users (chat_id, username)" creates: the column defaults
NewRow(username) ==
    [username |-> username,
     morning_notification |-> 1,
     morning_notification_hour |-> DefaultMorningHour,
     match_reminder_minutes |-> DefaultReminderMinutes,
     goal_notification |-> 1,
     lineup_notification |-> 1]

\* (mutant) INSERT OR REPLACE: an existing row is reset to the defaults
GetOrCreateUserReplace(db, chat_id, username) ==
    [db EXCEPT ![chat_id] = NewRow(username)]

\* the table after get_or_create_user(chat_id, username)
GetOrCreateUser(db, chat_id, username) ==
    IF db[chat_id] # NoRow
    THEN IF username # NoName /\ db[chat_id].username # username
         THEN [db EXCEPT ![chat_id].username = username]
         ELSE db
    ELSE [db EXCEPT ![chat_id] = NewRow(username)]

\* SELECT * FROM users
GetAllUsers(db) == {c \in DOMAIN db : db[c] # NoRow}

\* the table after update_match_reminder(chat_id, minutes)
UpdateMatchReminder(db, chat_id, minutes) ==
    IF db[chat_id] = NoRow THEN db
    ELSE [db EXCEPT ![chat_id].match_reminder_minutes = minutes]

----------------------------------------------------------------------------
(* Match Data Gateway: get_upcoming_matches(days_ahead) *)

Date(t) == t \div DayMinutes

\* the fixtures in the date window dateFrom = today, dateTo = today + days
UpcomingMatches(days_ahead) ==
    {[id |-> m, utcDate |-> utcDate[m]] :
        m \in {x \in DOMAIN utcDate :
                  /\ Date(now) <= Date(utcDate[x])
                  /\ Date(utcDate[x]) <= Date(now) + days_ahead}}

\* a malformed record: an unparsable utcDate, or no id
Malformed(r) ==
    IF r.id = 1 THEN [r EXCEPT !.utcDate = BadDate] ELSE [r EXCEPT !.id = 0]

\* what one call may return: the fixtures, nothing (a failed request returns
\* []), or the fixtures with one record malformed
UpcomingAnswers(days_ahead) ==
    LET good == UpcomingMatches(days_ahead) IN
    {good, {}} \cup {(good \ {r}) \cup {Malformed(r)} : r \in good}

----------------------------------------------------------------------------
(* Reminder planner (scheduler.py) *)

JobId(chat_id, match_id) == <<chat_id, match_id>>

\* (mutant) the look-ahead guard with both ends included
InLookAheadInclusive(t, reminder_time) ==
    t <= reminder_time /\ reminder_time <= t + TwoHours

\* the look-ahead guard: now < reminder_time < now + timedelta(hours=2)
InLookAhead(t, reminder_time) ==
    t < reminder_time /\ reminder_time < t + TwoHours

\* (mutant) the registry is never consulted
AlreadyScheduledNever(registry, job_id) == FALSE

\* "if job_id in self._match_jobs: continue"
AlreadyScheduled(registry, job_id) == job_id \in registry

\* (mutant) the look-ahead guard is dropped: every future fixture is scheduled
NewJobsForUserNoHorizon(registry, chat_id, row, matches) ==
    LET reminder_minutes == row.match_reminder_minutes IN
    IF reminder_minutes <= 0 THEN {}
    ELSE {[chat_id |-> chat_id,
           match_id |-> r.id,
           run_date |-> r.utcDate - reminder_minutes,
           minutes |-> reminder_minutes] :
            r \in {x \in matches :
                     /\ x.id # 0
                     /\ ~AlreadyScheduled(registry, JobId(chat_id, x.id))
                     /\ x.utcDate # BadDate
                     /\ now < x.utcDate - reminder_minutes}}

\* the jobs _schedule_reminders_for_user adds for one user row and one
\* gateway answer
NewJobsForUser(registry, chat_id, row, matches) ==
    LET reminder_minutes == row.match_reminder_minutes IN
    IF reminder_minutes <= 0 THEN {}
    ELSE {[chat_id |-> chat_id,
           match_id |-> r.id,
           run_date |-> r.utcDate - reminder_minutes,
           minutes |-> reminder_minutes] :
            r \in {x \in matches :
                     /\ x.id # 0
                     /\ ~AlreadyScheduled(registry, JobId(chat_id, x.id))
                     /\ x.utcDate # BadDate
                     /\ InLookAhead(now, x.utcDate - reminder_minutes)}}

\* (mutant) the planner forgets to register the job ids it schedules
PlannerRunNoRegister(answer) ==
    /\ plannerDue
    /\ plannerDue' = FALSE
    /\ jobstore' = jobstore \cup
          UNION {NewJobsForUser(match_jobs, c, users[c], answer[c]) :
                   c \in GetAllUsers(users)}
    /\ UNCHANGED <<users, now, utcDate, match_jobs, fired, goalVars, lineupVars,
                   storeVars, digestVars, timerVars,
                   botVars>>

\* check_and_schedule_match_reminders: every user, each with its own gateway
\* call (answer[c]); job ids of different users are disjoint
PlannerRun(answer) ==
    /\ plannerDue
    /\ plannerDue' = FALSE
    /\ \E added \in {UNION {NewJobsForUser(match_jobs, c, users[c], answer[c]) :
                              c \in GetAllUsers(users)}} :
         /\ jobstore' = jobstore \cup added
         /\ match_jobs' = match_jobs \cup
                            {JobId(j.chat_id, j.match_id) : j \in added}
    /\ InstanceEnds("match_reminder_check")
    /\ UNCHANGED <<users, now, utcDate, fired, goalVars, lineupVars,
                   storeVars, digestVars,
                   botVars>>

\* (mutant) the reminder reports the subscriber's current lead minutes
FireReminderCurrentLead(j) ==
    /\ j \in jobstore
    /\ j.run_date <= now
    /\ jobstore' = jobstore \ {j}
    /\ fired' = [fired EXCEPT ![JobId(j.chat_id, j.match_id)] =
                    Append(@, [at |-> now, run_date |-> j.run_date,
                               minutes |-> users[j.chat_id].match_reminder_minutes])]
    /\ UNCHANGED <<users, now, plannerDue, utcDate, match_jobs, goalVars, lineupVars,
                   storeVars, digestVars, timerVars,
                   botVars>>

\* (mutant) a reminder that has run is taken out of the registry
FireReminderEvicting(j) ==
    /\ j \in jobstore
    /\ j.run_date <= now
    /\ jobstore' = jobstore \ {j}
    /\ match_jobs' = match_jobs \ {JobId(j.chat_id, j.match_id)}
    /\ fired' = [fired EXCEPT ![JobId(j.chat_id, j.match_id)] =
                    Append(@, [at |-> now, run_date |-> j.run_date,
                               minutes |-> j.minutes])]
    /\ UNCHANGED <<users, now, plannerDue, utcDate, goalVars, lineupVars,
                   storeVars, digestVars, timerVars,
                   botVars>>

\* the timer service runs a date job at its run_date and drops it;
\* _send_match_reminder(chat_id, match_info, minutes) sends the message
FireReminder(j) ==
    /\ j \in jobstore
    /\ j.run_date <= now
    /\ jobstore' = jobstore \ {j}
    /\ fired' = [fired EXCEPT ![JobId(j.chat_id, j.match_id)] =
                    Append(@, [at |-> now, run_date |-> j.run_date,
                               minutes |-> j.minutes])]
    /\ UNCHANGED <<users, now, plannerDue, utcDate, match_jobs, goalVars, lineupVars,
                   storeVars, digestVars, timerVars,
                   botVars>>

\* the button callback set_reminder_<minutes>
SetReminder(chat_id, username, minutes) ==
    /\ users' = UpdateMatchReminder(GetOrCreateUser(users, chat_id, username),
                                    chat_id, minutes)
    /\ users' # users
    /\ UNCHANGED <<now, utcDate, reminderVars, goalVars, lineupVars,
                   storeVars, digestVars, timerVars,
                   botVars>>

\* time passes to the next cron instant once this instant's work is done
Tick ==
    /\ ~plannerDue
    /\ \A j \in jobstore : j.run_date > now
    /\ now + PlannerPeriod <= MaxTime
    /\ now' = now + PlannerPeriod
    /\ plannerDue' = TRUE
    /\ UNCHANGED <<users, utcDate, match_jobs, jobstore, fired, goalVars, lineupVars,
                   storeVars, digestVars, timerVars,
                   botVars>>

----------------------------------------------------------------------------
(* Subscribers in rowid order, and the filtered queries of database.py *)

SubscriberOrder == <<"u1", "u2">>

\* the rows of "SELECT * FROM users WHERE <column> IN <values>", as chat ids
\* in rowid order
RowsWhere(db, column, values) ==
    LET Keep(c) == db[c] # NoRow /\ db[c][column] \in values IN
    SelectSeq(SubscriberOrder, Keep)

\* (mutant) the WHERE clause is missing
GetUsersForGoalNotificationAll(db) ==
    RowsWhere(db, "goal_notification", {0, 1})

\* get_users_for_goal_notification: WHERE goal_notification = 1
GetUsersForGoalNotification(db) ==
    RowsWhere(db, "goal_notification", {1})

\* get_users_for_lineup_notification: WHERE lineup_notification = 1
GetUsersForLineupNotification(db) ==
    RowsWhere(db, "lineup_notification", {1})

\* (mutant) the setting is switched off whatever it was
ToggleSettingOff(db, chat_id, setting_name) ==
    IF db[chat_id] = NoRow THEN db
    ELSE [db EXCEPT ![chat_id][setting_name] = 0]

\* the table after toggle_setting(chat_id, setting_name)
ToggleSetting(db, chat_id, setting_name) ==
    IF db[chat_id] = NoRow THEN db
    ELSE LET current == db[chat_id][setting_name]
             new_value == IF current # 0 THEN 0 ELSE 1
         IN [db EXCEPT ![chat_id][setting_name] = new_value]

\* what toggle_setting returns
ToggleSettingResult(db, chat_id, setting_name) ==
    IF db[chat_id] = NoRow THEN FALSE
    ELSE ~(db[chat_id][setting_name] # 0)

\* (mutant) the hour is not part of the WHERE clause
GetUsersForMorningNotificationAnyHour(db, hour) ==
    RowsWhere(db, "morning_notification", {1})

\* get_users_for_morning_notification(hour):
\* WHERE morning_notification = 1 AND morning_notification_hour = ?
GetUsersForMorningNotification(db, hour) ==
    LET Keep(c) == /\ db[c] # NoRow
                   /\ db[c].morning_notification = 1
                   /\ db[c].morning_notification_hour = hour
    IN SelectSeq(SubscriberOrder, Keep)

\* (mutant) an upsert: the row is created when it is missing
UpdateColumnUpsert(db, chat_id, column, value) ==
    IF db[chat_id] = NoRow
    THEN [db EXCEPT ![chat_id] = [NewRow(NoName) EXCEPT ![column] = value]]
    ELSE [db EXCEPT ![chat_id][column] = value]

\* the table after "UPDATE users SET <column> = ? WHERE chat_id = ?", the
\* statement of the five update_* methods
UpdateColumn(db, chat_id, column, value) ==
    IF db[chat_id] = NoRow THEN db
    ELSE [db EXCEPT ![chat_id][column] = value]

\* what the update_* methods return: cursor.rowcount > 0
UpdateColumnResult(db, chat_id) == db[chat_id] # NoRow

\* what get_or_create_user returns: the row as selected before the username
\* update, or the inserted row
GetOrCreateUserResult(db, chat_id, username) ==
    IF db[chat_id] # NoRow THEN db[chat_id] ELSE NewRow(username)

----------------------------------------------------------------------------
(* Database calls, one at a time *)

BoolInt(b) == IF b THEN 1 ELSE 0

\* the columns the update_* methods write, and the values they are given
UpdateColumns == {"morning_notification", "morning_notification_hour",
                  "match_reminder_minutes", "goal_notification",
                  "lineup_notification"}

ToggleColumns == {"morning_notification", "goal_notification",
                  "lineup_notification"}

HourInputs == {7, 9}
QueryHours == {7, 9, 11}
StoreNames == {NoName, "ann"}

ColumnValues(column) ==
    IF column = "morning_notification_hour" THEN HourInputs
    ELSE IF column = "match_reminder_minutes" THEN {0, 30}
    ELSE {0, 1}

\* get_or_create_user(chat_id, username)
StoreGetOrCreate(chat_id, username) ==
    /\ users' = GetOrCreateUser(users, chat_id, username)
    /\ upserted' = upserted \cup {chat_id}
    /\ last_call' = [NoCall EXCEPT !.op = "get_or_create_user",
                                   !.chat_id = chat_id,
                                   !.username = username,
                                   !.row = GetOrCreateUserResult(users, chat_id, username)]
    /\ UNCHANGED <<now, utcDate, reminderVars, goalVars, lineupVars,
                   toggles, toggle_start, digestVars, timerVars,
                   botVars>>

\* update_morning_notification, update_morning_notification_hour,
\* update_match_reminder, update_goal_notification, update_lineup_notification
StoreUpdate(chat_id, column, value) ==
    /\ users' = UpdateColumn(users, chat_id, column, value)
    /\ last_call' = [NoCall EXCEPT !.op = "update",
                                   !.chat_id = chat_id,
                                   !.column = column,
                                   !.value = value,
                                   !.ret = BoolInt(UpdateColumnResult(users, chat_id))]
    /\ UNCHANGED <<now, utcDate, reminderVars, goalVars, lineupVars, upserted,
                   toggles, toggle_start, digestVars, timerVars,
                   botVars>>

\* toggle_setting(chat_id, setting_name), not interleaved with other calls
StoreToggle(chat_id, setting_name) ==
    /\ users' = ToggleSetting(users, chat_id, setting_name)
    /\ last_call' = [NoCall EXCEPT !.op = "toggle_setting",
                                   !.chat_id = chat_id,
                                   !.column = setting_name,
                                   !.value = IF users[chat_id] = NoRow THEN -1
                                             ELSE users[chat_id][setting_name],
                                   !.ret = BoolInt(ToggleSettingResult(users, chat_id,
                                                                       setting_name))]
    /\ UNCHANGED <<now, utcDate, reminderVars, goalVars, lineupVars, upserted,
                   toggles, toggle_start, digestVars, timerVars,
                   botVars>>

\* get_users_for_morning_notification(hour)
StoreQueryMorning(hour) ==
    /\ last_call' = [NoCall EXCEPT !.op = "get_users_for_morning_notification",
                                   !.value = hour,
                                   !.rows = GetUsersForMorningNotification(users, hour)]
    /\ UNCHANGED <<users, now, utcDate, reminderVars, goalVars, lineupVars, upserted,
                   toggles, toggle_start, digestVars, timerVars,
                   botVars>>

----------------------------------------------------------------------------
(* toggle_setting called by several callers at once: the read (get_user,   *)
(* its own connection) and the write (UPDATE, a second connection) are two *)
(* transactions                                                            *)

\* "user = self.get_user(chat_id)": False is returned when there is no row
ToggleRead(t, chat_id, setting_name) ==
    /\ toggles[t].pc = "idle"
    /\ toggles' = [toggles EXCEPT ![t] =
          IF users[chat_id] = NoRow
          THEN [pc |-> "done", chat_id |-> chat_id,
                setting_name |-> setting_name, current |-> -1]
          ELSE [pc |-> "read", chat_id |-> chat_id,
                setting_name |-> setting_name,
                current |-> users[chat_id][setting_name]]]
    /\ UNCHANGED <<users, now, utcDate, reminderVars, goalVars, lineupVars,
                   last_call, upserted, toggle_start, digestVars, timerVars,
                   botVars>>

\* "new_value = 0 if current else 1" and the UPDATE
ToggleWrite(t) ==
    /\ toggles[t].pc = "read"
    /\ users' = [users EXCEPT ![toggles[t].chat_id][toggles[t].setting_name] =
                    IF toggles[t].current # 0 THEN 0 ELSE 1]
    /\ toggles' = [toggles EXCEPT ![t].pc = "done"]
    /\ UNCHANGED <<now, utcDate, reminderVars, goalVars, lineupVars,
                   last_call, upserted, toggle_start, digestVars, timerVars,
                   botVars>>

----------------------------------------------------------------------------
(* Morning digest (scheduler.py, football_api.format_match_info).  In this  *)
(* section now is datetime.now(), the naive local time of a server on      *)
(* Korean time, and utcDate is UTC; minute 0 is 2026-11-01 00:00; strings  *)
(* are sequences of characters                                             *)

\* Asia/Seoul is UTC+9 all year
KoreaOffset == 540

Digits == <<"0", "1", "2", "3", "4", "5", "6", "7", "8", "9">>

\* the characters that occur, in code point order
Alphabet == <<" ", "-", "/">> \o Digits \o <<":">>

Ord(ch) == CHOOSE i \in 1..Len(Alphabet) : Alphabet[i] = ch

\* "%02d"
TwoDigits(n) == <<Digits[(n \div 10) + 1], Digits[(n % 10) + 1]>>

\* the calendar: day d of the clock is November d + 1, 2026
Year == <<"2", "0", "2", "6">>
Month(t) == TwoDigits(11)
DayOfMonth(t) == TwoDigits(Date(t) + 1)
HourOf(t) == (t % DayMinutes) \div 60
MinuteOf(t) == t % 60

\* strftime("%m/%d")
StrfMonthDay(t) == Month(t) \o <<"/">> \o DayOfMonth(t)

\* strftime("%Y-%m-%d %H:%M")
StrfDateTime(t) ==
    Year \o <<"-">> \o Month(t) \o <<"-">> \o DayOfMonth(t) \o <<" ">>
         \o TwoDigits(HourOf(t)) \o <<":">> \o TwoDigits(MinuteOf(t))

\* s[a:b]
Slice(s, a, b) ==
    IF a >= Len(s) THEN <<>>
    ELSE SubSeq(s, a + 1, IF b < Len(s) THEN b ELSE Len(s))

\* a < b on strings
RECURSIVE StrLess(_, _)
StrLess(a, b) ==
    IF b = <<>> THEN FALSE
    ELSE IF a = <<>> THEN TRUE
    ELSE IF Head(a) # Head(b) THEN Ord(Head(a)) < Ord(Head(b))
    ELSE StrLess(Tail(a), Tail(b))

\* format_match_info(match)["korea_time"]: "" when utcDate does not parse
KoreaTime(match) ==
    IF match.utcDate = BadDate THEN <<>>
    ELSE StrfDateTime(match.utcDate + KoreaOffset)

\* the test of _send_morning_notification_to_user on one match, at local
\* time t
InDigest(match, t) ==
    LET today == StrfMonthDay(t)
        tomorrow == StrfMonthDay(t + DayMinutes)
        korea_time == KoreaTime(match)
        match_date == Slice(korea_time, 0, 5)
        match_time == IF Len(korea_time) >= 11 THEN Slice(korea_time, 6, 11)
                      ELSE <<>>
    IN \/ match_date = today
       \/ match_date = tomorrow /\ StrLess(match_time, <<"0", "9", ":", "0", "0">>)

\* (mutant) a message is sent whatever the list holds
DigestSendsAlways(today_matches) == TRUE

\* "if today_matches:"
DigestSends(today_matches) == today_matches # {}

\* (mutant) the trigger fires on every hour of the day
MorningTriggerEveryHour(t) == MinuteOf(t) = 0

\* the 7:00 to 11:00 cron trigger, on the hour
MorningTrigger(t) == HourOf(t) \in 7..11 /\ MinuteOf(t) = 0

\* the fixtures of the digest scenario: 20:00 on day 1, 03:00 and 14:00 on
\* day 2, Korean time
DigestKickoffs ==
    <<DayMinutes + 20 * 60 - KoreaOffset,
      2 * DayMinutes + 3 * 60 - KoreaOffset,
      2 * DayMinutes + 14 * 60 - KoreaOffset>>

\* what get_upcoming_matches(days_ahead=2) may return for one subscriber:
\* any part of the fixture list of the next two days
DigestAnswers == SUBSET UpcomingMatches(2)

\* send_morning_notifications: answers[c] is the gateway's answer while c is
\* handled, blocked the chats where send_message raises
SendMorningNotifications(answers, blocked) ==
    /\ MorningTrigger(now)
    /\ LET selected == GetUsersForMorningNotification(users, HourOf(now))
           today_matches(c) == {m \in answers[c] : InDigest(m, now)}
           Raises(c) == DigestSends(today_matches(c)) /\ c \in blocked
           Delivered(c) == DigestSends(today_matches(c)) /\ c \notin blocked
           sent == SelectSeq(selected, Delivered)
       IN /\ digest_seen' =
                [i \in 1..Len(selected) |->
                    [chat_id |-> selected[i],
                     at |-> now,
                     returned |-> {m.id : m \in answers[selected[i]]},
                     failed |-> Raises(selected[i])]]
          /\ digest_log' =
                [i \in 1..Len(sent) |->
                    [chat_id |-> sent[i],
                     matches |-> {m.id : m \in today_matches(sent[i])}]]
          /\ digest_errors' =
                Cardinality({i \in 1..Len(selected) : Raises(selected[i])})
    /\ InstanceEnds("morning_notification")
    /\ UNCHANGED <<users, now, utcDate, reminderVars, goalVars, lineupVars,
                   storeVars,
                   botVars>>

MaxDigestTicks == 4

DigestStart == DayMinutes + 7 * 60

\* an hour passes
DigestTick ==
    /\ now < DigestStart + MaxDigestTicks * 60
    /\ now' = now + 60
    /\ UNCHANGED <<users, utcDate, reminderVars, goalVars, lineupVars,
                   storeVars, digestVars, timerVars,
                   botVars>>

----------------------------------------------------------------------------
(* The /restart command (birmingham_bot.py) *)

NoFlag == <<"absent">>

NoCommand == [chat |-> 0, warned |-> FALSE, replies |-> <<>>]

\* str(n) of a natural number
RECURSIVE StrNat(_)
StrNat(n) ==
    IF n < 10 THEN <<Digits[n + 1]>>
    ELSE StrNat(n \div 10) \o <<Digits[(n % 10) + 1]>>

\* str(n) of an integer
StrInt(n) == IF n < 0 THEN <<"-">> \o StrNat(-n) ELSE StrNat(n)

\* the values config.TELEGRAM_CHAT_ID may hold: an integer, or a string; n
\* is the chat the value stands for
AdminConfigs ==
    {[int |-> TRUE, n |-> 42, s |-> <<>>],
     [int |-> FALSE, n |-> 42, s |-> <<"4", "2">>],
     [int |-> FALSE, n |-> -42, s |-> <<"-", "4", "2">>]}

\* str(TELEGRAM_CHAT_ID)
StrConfig(value) == IF value.int THEN StrInt(value.n) ELSE value.s

\* the chats /restart may come from
RestartCallers == {42, -42, 24, 4}

\* what happens after the admin test: both steps succeed, open() raises, or
\* Popen raises
RestartOutcomes == {"ok", "open_fails", "popen_fails"}

\* update.sh is launched at most this many times
MaxRestarts == 3

\* (mutant) the admin test is missing
IsAdminAlways(chat_id) == TRUE

\* "chat_id != str(TELEGRAM_CHAT_ID)", negated
IsAdmin(chat_id) == chat_id = StrConfig(admin)

\* restart_command, called from chat
RestartCommand(chat, outcome) ==
    /\ outcome = "ok" => update_runs < MaxRestarts
    /\ LET chat_id == StrInt(chat) IN
       IF ~IsAdmin(chat_id)
       THEN /\ last_command' = [chat |-> chat, warned |-> TRUE,
                                replies |-> <<"no_permission">>]
            /\ UNCHANGED <<restart_flag, update_runs>>
       ELSE /\ restart_flag' = IF outcome = "open_fails" THEN restart_flag
                               ELSE chat_id
            /\ update_runs' = IF outcome = "ok" THEN update_runs + 1
                              ELSE update_runs
            /\ last_command' =
                  [chat |-> chat, warned |-> FALSE,
                   replies |-> IF outcome = "ok" THEN <<"restarting">>
                               ELSE <<"restarting", "restart_failed">>]
    /\ UNCHANGED <<users, now, utcDate, reminderVars, goalVars, lineupVars,
                   storeVars, digestVars, timerVars, admin>>

\* send_restart_success_message, at the start of the process: the flag file
\* is read and removed
SendRestartSuccessMessage ==
    /\ restart_flag # NoFlag
    /\ restart_flag' = NoFlag
    /\ UNCHANGED <<users, now, utcDate, reminderVars, goalVars, lineupVars,
                   storeVars, digestVars, timerVars, admin, update_runs,
                   last_command>>

RestartIdle ==
    /\ restart_flag = NoFlag
    /\ update_runs = 0
    /\ last_command = NoCommand

----------------------------------------------------------------------------
(* Live-score goal detection (scheduler.py) *)

BIRMINGHAM_TEAM_ID == 332

\* the two fixtures: the club at home to "B", and away at "C"
Fixture(m) ==
    IF m = 1
    THEN [home_id |-> BIRMINGHAM_TEAM_ID, home_name |-> "A",
          away_id |-> 58, away_name |-> "B"]
    ELSE [home_id |-> 341, home_name |-> "C",
          away_id |-> BIRMINGHAM_TEAM_ID, away_name |-> "A"]

\* a match of at most this many goals
MaxGoals == 2

PolledScores == {sc \in [home : 0..MaxGoals, away : 0..MaxGoals] :
                    sc.home + sc.away <= MaxGoals}

\* the second fixture, polled alongside the first, has at most this many,
\* all by its home side
MaxOtherGoals == 1

OtherScores == {sc \in PolledScores : sc.home <= MaxOtherGoals /\ sc.away = 0}

\* the scores a poll can report for a fixture
ScoresOf(m) == IF m = 1 THEN PolledScores ELSE OtherScores

\* fullTime tells whether "score" holds a "fullTime" object
LiveRecord(m, sc) == [id |-> m, home |-> sc.home, away |-> sc.away, fullTime |-> TRUE]

\* a record of the first fixture whose "fullTime" is null
NullScore == [id |-> 1, home |-> 0, away |-> 0, fullTime |-> FALSE]

\* get_live_matches(): the matches in play with their current score, in id
\* order; an empty list when there is none or the request failed; a record
\* may lack its id or its score
LiveAnswers ==
    {<<>>, <<[id |-> 0, home |-> 1, away |-> 0, fullTime |-> TRUE]>>, <<NullScore>>}
    \cup {<<NullScore, LiveRecord(2, s2)>> : s2 \in ScoresOf(2)}
    \cup UNION {{<<LiveRecord(m, sc)>> : sc \in ScoresOf(m)} : m \in MatchIds}
    \cup {<<LiveRecord(1, s1), LiveRecord(2, s2)>> :
             s1 \in ScoresOf(1), s2 \in ScoresOf(2)}

\* (mutant) a match without an entry is compared against (-1,-1)
PrevScoreUnseen(scores, match_id) ==
    IF scores[match_id] = NoScore THEN [home |-> -1, away |-> -1]
    ELSE scores[match_id]

\* self._live_scores.get(match_id, {"home": 0, "away": 0})
PrevScore(scores, match_id) ==
    IF scores[match_id] = NoScore THEN [home |-> 0, away |-> 0]
    ELSE scores[match_id]

\* (mutant) any change of the score counts as a goal
GoalDetectedOnChange(prev, match) ==
    match.home # prev.home \/ match.away # prev.away

\* "if home_score > prev_home or away_score > prev_away"
GoalDetected(prev, match) ==
    match.home > prev.home \/ match.away > prev.away

\* (mutant) the away side is tested first
ScoringSideAwayFirst(prev, match) ==
    IF match.away > prev.away THEN "away" ELSE "home"

\* the side the goal is attributed to: home first
ScoringSide(prev, match) ==
    IF match.home > prev.home THEN "home" ELSE "away"

\* the messages _process_live_match sends for one match: one per user
GoalMessages(prev, match, recipients) ==
    IF ~GoalDetected(prev, match) THEN <<>>
    ELSE LET side == ScoringSide(prev, match)
             f == Fixture(match.id)
             scoring_team == IF side = "home" THEN f.home_name ELSE f.away_name
             scoring_team_id == IF side = "home" THEN f.home_id ELSE f.away_id
         IN [i \in 1..Len(recipients) |->
                [chat_id |-> recipients[i],
                 match_id |-> match.id,
                 home_name |-> f.home_name,
                 away_name |-> f.away_name,
                 home_score |-> match.home,
                 away_score |-> match.away,
                 scoring_team |-> scoring_team,
                 is_birmingham_goal |-> (scoring_team_id = BIRMINGHAM_TEAM_ID)]]

\* (mutant) only the first score of a match is stored
StoreScoreOnce(scores, match) ==
    IF scores[match.id] = NoScore
    THEN [scores EXCEPT ![match.id] = [home |-> match.home, away |-> match.away]]
    ELSE scores

\* (mutant) a stored score is never lowered
StoreScoreNeverLower(scores, match) ==
    LET prev == PrevScore(scores, match.id) IN
    [scores EXCEPT ![match.id] =
        [home |-> IF match.home > prev.home THEN match.home ELSE prev.home,
         away |-> IF match.away > prev.away THEN match.away ELSE prev.away]]

\* (mutant) the stored scores are rebuilt from the match at hand
StoreScoreAlone(scores, match) ==
    [m \in DOMAIN scores |->
        IF m = match.id THEN [home |-> match.home, away |-> match.away]
        ELSE NoScore]

\* the stored scores after _process_live_match
StoreScore(scores, match) ==
    [scores EXCEPT ![match.id] = [home |-> match.home, away |-> match.away]]

\* the locals of one _process_live_match call: the polled score and the
\* stored score it is compared with
Evaluation(prev, match) ==
    [match_id |-> match.id, home_score |-> match.home, away_score |-> match.away,
     prev_home |-> prev.home, prev_away |-> prev.away]

\* the loop "for match in live_matches: _process_live_match(match, users)":
\* the stored scores, the messages and the evaluations after it, and the
\* matches the loop did not come to.  score.get on a null "fullTime" raises
\* AttributeError, which only the handler around the loop catches
RECURSIVE ProcessLiveMatches(_, _, _, _, _)
ProcessLiveMatches(live_matches, scores, log, polls, recipients) ==
    IF live_matches = <<>>
    THEN [scores |-> scores, log |-> log, polls |-> polls, unprocessed |-> {}]
    ELSE LET match == Head(live_matches)
             rest == Tail(live_matches)
         IN
         IF match.id = 0
         THEN ProcessLiveMatches(Tail(live_matches), scores, log, polls, recipients)
         ELSE IF ~match.fullTime
         THEN [scores |-> scores, log |-> log, polls |-> polls,
               unprocessed |-> {rest[i].id : i \in 1..Len(rest)}]
         ELSE ProcessLiveMatches(
                  Tail(live_matches),
                  StoreScore(scores, match),
                  log \o GoalMessages(PrevScore(scores, match.id), match, recipients),
                  Append(polls, Evaluation(PrevScore(scores, match.id), match)),
                  recipients)

\* the history of goal declarations after a cycle that sent the messages of
\* log: one more for each match with a message.  A specification that does
\* not count starts every entry at NotCounted and leaves it there
NotCounted == 0 - 1

CountGoalEvents(events, log) ==
    [m \in DOMAIN events |->
        IF events[m] = NotCounted THEN NotCounted
        ELSE IF \E i \in 1..Len(log) : log[i].match_id = m
             THEN events[m] + 1
             ELSE events[m]]

\* (mutant) the cycle polls nothing and switches goal messages off for every
\* subscriber
CheckLiveScoresMuting(live_matches) ==
    /\ users' = [c \in Subscribers |->
                    IF users[c] = NoRow THEN NoRow
                    ELSE [users[c] EXCEPT !.goal_notification = 0]]
    /\ live_scores' = live_scores /\ goal_log' = <<>>
    /\ live_polls' = <<>> /\ live_unprocessed' = {} /\ goal_failed' = {}
    /\ goal_events' = goal_events
    /\ InstanceEnds("live_score_check")
    /\ UNCHANGED <<now, utcDate, reminderVars, lineupVars, storeVars, digestVars,
                   botVars>>

\* check_live_scores: nothing is polled when no user wants goal messages.
\* goal_log holds the send_message calls; in the chats of blocked the call
\* raises, which _send_goal_notification catches and logs
LiveScoreCycle(live_matches, blocked) ==
    /\ \E recipients \in {GetUsersForGoalNotification(users)} :
         IF recipients = <<>>
         THEN /\ live_scores' = live_scores /\ goal_log' = <<>>
              /\ live_polls' = <<>> /\ live_unprocessed' = {}
              /\ goal_failed' = {}
              /\ goal_events' = goal_events
         ELSE \E result \in {ProcessLiveMatches(live_matches, live_scores,
                                                <<>>, <<>>, recipients)} :
              /\ live_scores' = result.scores
              /\ goal_log' = result.log
              /\ live_polls' = result.polls
              /\ live_unprocessed' = result.unprocessed
              /\ goal_failed' = {result.log[i].chat_id : i \in 1..Len(result.log)}
                                    \cap blocked
              /\ goal_events' = CountGoalEvents(goal_events, result.log)
    /\ InstanceEnds("live_score_check")
    /\ UNCHANGED <<users, now, utcDate, reminderVars, lineupVars,
                   storeVars, digestVars,
                   botVars>>

\* check_live_scores when every message is delivered
CheckLiveScores(live_matches) == LiveScoreCycle(live_matches, {})

\* the button callback toggle_goal
ToggleGoal(chat_id, username) ==
    /\ users' = ToggleSetting(GetOrCreateUser(users, chat_id, username),
                              chat_id, "goal_notification")
    /\ UNCHANGED <<now, utcDate, reminderVars, goalVars, lineupVars,
                   storeVars, digestVars, timerVars,
                   botVars>>

----------------------------------------------------------------------------
(* Lineup availability (scheduler.py) *)

LineupPeriod == 30
LineupWindow == 60

\* the lineup cycle's clock stops after this many cron periods
MaxLineupTicks == 3

\* kickoffs for the lineup cycle: 60 and 61 minutes from the start
LineupKickoffs == [m \in MatchIds |-> IF m = 1 THEN 60 ELSE 61]

Statuses == {"SCHEDULED", "TIMED", "IN_PLAY"}

NoDetails == [absent |-> TRUE]

\* get_today_matches(): today's fixtures with the status the gateway reports,
\* in id order; an empty list when the request failed
TodayAnswers ==
    {<<>>}
    \cup {<<[id |-> 1, status |-> s1, utcDate |-> utcDate[1]]>> : s1 \in Statuses}
    \cup {<<[id |-> 1, status |-> s1, utcDate |-> utcDate[1]],
            [id |-> 2, status |-> s2, utcDate |-> utcDate[2]]>> :
             s1 \in Statuses, s2 \in Statuses}

\* get_match_details(match_id): nothing (failed request), or the two lineups,
\* given here by their lengths
DetailAnswers ==
    {NoDetails} \cup [home_lineup : {0, 11}, away_lineup : {0, 11}]

\* (match_datetime - now).total_seconds() / 60
TimeUntilMatch(match) == match.utcDate - now

\* (mutant) only the last third of the hour before kickoff is checked
LineupDueLastThird(sent, match) ==
    /\ match.status \in {"TIMED", "SCHEDULED"}
    /\ match.id \notin sent
    /\ match.utcDate # BadDate
    /\ ~(TimeUntilMatch(match) > LineupWindow \div 3 \/ TimeUntilMatch(match) < 0)

\* (mutant) _lineup_sent is not consulted
LineupDueIgnoringSent(sent, match) ==
    /\ match.status \in {"TIMED", "SCHEDULED"}
    /\ match.utcDate # BadDate
    /\ ~(TimeUntilMatch(match) > LineupWindow \/ TimeUntilMatch(match) < 0)

\* (mutant) a match that has kicked off is still checked
LineupDueAfterKickoff(sent, match) ==
    /\ match.status \in {"TIMED", "SCHEDULED"}
    /\ match.id \notin sent
    /\ match.utcDate # BadDate
    /\ ~(TimeUntilMatch(match) > LineupWindow)

\* the checks of _process_lineup before it asks for the match details
LineupDue(sent, match) ==
    /\ match.status \in {"TIMED", "SCHEDULED"}
    /\ match.id \notin sent
    /\ match.utcDate # BadDate
    /\ ~(TimeUntilMatch(match) > LineupWindow \/ TimeUntilMatch(match) < 0)

\* (mutant) "or" for "and": both lineups are required
LineupPublishedBothSides(match_details) ==
    /\ match_details # NoDetails
    /\ ~(match_details.home_lineup = 0 \/ match_details.away_lineup = 0)

\* "if not home_lineup and not away_lineup: return"
\* (mutant) "if not match_details: return" is missing
LineupPublishedOrAbsent(match_details) ==
    \/ match_details = NoDetails
    \/ ~(match_details.home_lineup = 0 /\ match_details.away_lineup = 0)

LineupPublished(match_details) ==
    /\ match_details # NoDetails
    /\ ~(match_details.home_lineup = 0 /\ match_details.away_lineup = 0)

\* (mutant) the loop over the users stops after the first
LineupMessagesToFirst(match, recipients) ==
    [i \in 1..(IF recipients = <<>> THEN 0 ELSE 1) |->
        [chat_id |-> recipients[i], match_id |-> match.id]]

\* one message per user
LineupMessages(match, recipients) ==
    [i \in 1..Len(recipients) |->
        [chat_id |-> recipients[i], match_id |-> match.id]]

\* the record of one get_match_details call
DetailsCall(match, match_details) ==
    [match_id |-> match.id, status |-> match.status,
     time_until_match |-> TimeUntilMatch(match), details |-> match_details]

\* the loop "for match in today_matches: _process_lineup(match, users)"
RECURSIVE ProcessLineups(_, _, _, _, _, _)
ProcessLineups(today_matches, details, sent, log, calls, recipients) ==
    IF today_matches = <<>> THEN [sent |-> sent, log |-> log, calls |-> calls]
    ELSE LET match == Head(today_matches)
             rest == Tail(today_matches)
         IN IF ~LineupDue(sent, match)
            THEN ProcessLineups(rest, details, sent, log, calls, recipients)
            ELSE LET match_details == details[match.id]
                     called == Append(calls, DetailsCall(match, match_details))
                 IN IF ~LineupPublished(match_details)
                    THEN ProcessLineups(rest, details, sent, log, called, recipients)
                    ELSE ProcessLineups(rest, details, sent \cup {match.id},
                                        log \o LineupMessages(match, recipients),
                                        called, recipients)

\* the matches of one answer
MatchIdsOf(today_matches) ==
    {today_matches[i].id : i \in 1..Len(today_matches)}

Count(log, chat_id, match_id) ==
    Cardinality({i \in 1..Len(log) : /\ log[i].chat_id = chat_id
                                      /\ log[i].match_id = match_id})

\* the matches whose lineups came back empty in these calls
EmptyLineups(calls) ==
    {calls[i].match_id : i \in
        {k \in 1..Len(calls) : /\ calls[k].details # NoDetails
                               /\ ~LineupPublished(calls[k].details)}}

\* check_lineups: nothing is fetched when no user wants lineup messages.
\* lineup_log holds the send_message calls; in the chats of blocked the call
\* raises, which _send_lineup_notification catches and logs
LineupCycle(today_matches, details, blocked) ==
    /\ \E recipients \in {GetUsersForLineupNotification(users)} :
         IF recipients = <<>>
         THEN /\ lineup_log' = <<>>
              /\ details_calls' = <<>>
              /\ lineup_failed' = {}
              /\ UNCHANGED <<lineup_sent, lineup_count, lineup_empty>>
         ELSE \E result \in {ProcessLineups(today_matches, details, lineup_sent,
                                            <<>>, <<>>, recipients)} :
              /\ lineup_sent' = result.sent
              /\ lineup_log' = result.log
              /\ details_calls' = result.calls
              /\ lineup_count' = [id \in JobIds |->
                    lineup_count[id] + Count(result.log, id[1], id[2])]
              /\ lineup_empty' = lineup_empty \cup EmptyLineups(result.calls)
              /\ lineup_failed' =
                    {result.log[i].chat_id : i \in 1..Len(result.log)} \cap blocked
    /\ InstanceEnds("lineup_check")
    /\ UNCHANGED <<users, now, utcDate, reminderVars, goalVars,
                   storeVars, digestVars,
                   botVars>>

\* check_lineups when every message is delivered
CheckLineups(today_matches, details) == LineupCycle(today_matches, details, {})

\* the button callback toggle_lineup
ToggleLineup(chat_id, username) ==
    /\ users' = ToggleSetting(GetOrCreateUser(users, chat_id, username),
                              chat_id, "lineup_notification")
    /\ UNCHANGED <<now, utcDate, reminderVars, goalVars, lineupVars,
                   storeVars, digestVars, timerVars,
                   botVars>>

\* time passes to the next */30 cron instant
LineupTick ==
    /\ now + LineupPeriod <= MaxLineupTicks * LineupPeriod
    /\ now' = now + LineupPeriod
    /\ UNCHANGED <<users, utcDate, reminderVars, goalVars, lineupVars,
                   storeVars, digestVars, timerVars,
                   botVars>>

----------------------------------------------------------------------------
(* Specification of the reminder planner *)

ReminderRows == {NoRow} \cup {[NewRow(NoName) EXCEPT !.match_reminder_minutes = l] :
                                l \in ReminderInputs}

GoalIdle ==
    /\ live_scores = [m \in MatchIds |-> NoScore]
    /\ goal_log = <<>>
    /\ live_polls = <<>>
    /\ live_unprocessed = {}
    /\ goal_failed = {}
    /\ goal_events = [m \in MatchIds |-> NotCounted]

LineupIdle ==
    /\ lineup_sent = {}
    /\ lineup_log = <<>>
    /\ details_calls = <<>>
    /\ lineup_count = [id \in JobIds |-> 0]
    /\ lineup_empty = {}
    /\ lineup_failed = {}

StoreIdle ==
    /\ last_call = NoCall
    /\ upserted = {}
    /\ toggles = [t \in Callers |-> IdleCaller]
    /\ toggle_start = [c \in Subscribers |-> NoRow]

DigestIdle ==
    /\ digest_seen = <<>>
    /\ digest_log = <<>>
    /\ digest_errors = 0

TimerIdle ==
    /\ running = [job \in CronJobs |-> 0]
    /\ missed = {}

BotIdle ==
    /\ admin = [int |-> TRUE, n |-> 42, s |-> <<>>]
    /\ RestartIdle

ReminderIdle ==
    /\ plannerDue = TRUE
    /\ match_jobs = {}
    /\ jobstore = {}
    /\ fired = [id \in JobIds |-> <<>>]

Init ==
    /\ users \in [Subscribers -> ReminderRows]
    /\ now = 0
    /\ utcDate = Kickoffs
    /\ ReminderIdle
    /\ GoalIdle
    /\ LineupIdle
    /\ StoreIdle
    /\ DigestIdle
    /\ TimerIdle
    /\ BotIdle

Next ==
    \/ \E answer \in [Subscribers -> UpcomingAnswers(1)] : PlannerRun(answer)
    \/ \E j \in jobstore : FireReminder(j)
    \/ \E c \in Subscribers, l \in ReminderInputs : SetReminder(c, NoName, l)
    \/ Tick

Spec == Init /\ [][Next]_vars

\* the timer service keeps running: cron triggers and due jobs are run, and
\* time passes
Fairness ==
    /\ WF_vars(Tick)
    /\ WF_vars(\E j \in jobstore : FireReminder(j))
    /\ WF_vars(\E answer \in [Subscribers -> UpcomingAnswers(1)] : PlannerRun(answer))

FairSpec == Spec /\ Fairness

----------------------------------------------------------------------------
(* The reminder planner with a gateway that returns the fixtures on every  *)
(* run, and a first subscriber who keeps a lead of 30 minutes              *)

ReliableInit ==
    /\ users \in [Subscribers -> ReminderRows]
    /\ users["u1"] = [NewRow(NoName) EXCEPT !.match_reminder_minutes = 30]
    /\ now = 0
    /\ utcDate = Kickoffs
    /\ ReminderIdle
    /\ GoalIdle
    /\ LineupIdle
    /\ StoreIdle
    /\ DigestIdle
    /\ TimerIdle
    /\ BotIdle

ReliableNext ==
    \/ PlannerRun([c \in Subscribers |-> UpcomingMatches(1)])
    \/ \E j \in jobstore : FireReminder(j)
    \/ \E l \in ReminderInputs : SetReminder("u2", NoName, l)
    \/ Tick

ReliableSpec ==
    /\ ReliableInit /\ [][ReliableNext]_vars
    /\ WF_vars(Tick)
    /\ WF_vars(\E j \in jobstore : FireReminder(j))
    /\ WF_vars(PlannerRun([c \in Subscribers |-> UpcomingMatches(1)]))

----------------------------------------------------------------------------
(* The reminder planner with a reliable gateway whose first fixture is     *)
(* moved to another kickoff while reminders for it are pending             *)

\* the kickoffs the first fixture can be moved between
MovedKickoffs == {90, 120}

\* the competition reschedules a fixture that has not begun: from now on
\* get_upcoming_matches reports the new utcDate under the same id
KickoffMoves(m, t) ==
    /\ t # utcDate[m]
    /\ now < utcDate[m] /\ now < t
    /\ utcDate' = [utcDate EXCEPT ![m] = t]
    /\ UNCHANGED <<users, now, reminderVars, goalVars, lineupVars,
                   storeVars, digestVars, timerVars,
                   botVars>>

MovedNext ==
    \/ PlannerRun([c \in Subscribers |-> UpcomingMatches(1)])
    \/ \E j \in jobstore : FireReminder(j)
    \/ \E l \in ReminderInputs : SetReminder("u2", NoName, l)
    \/ \E t \in MovedKickoffs : KickoffMoves(1, t)
    \/ Tick

MovedSpec == ReliableInit /\ [][MovedNext]_vars

----------------------------------------------------------------------------
(* Specification of the live-score cycle *)

GoalRows == {NoRow} \cup {[NewRow(NoName) EXCEPT !.goal_notification = g] :
                            g \in {0, 1}}

GoalInit ==
    /\ users \in [Subscribers -> GoalRows]
    /\ now = 0
    /\ utcDate = Kickoffs
    /\ ReminderIdle
    /\ GoalIdle
    /\ LineupIdle
    /\ StoreIdle
    /\ DigestIdle
    /\ TimerIdle
    /\ BotIdle

GoalNext ==
    \/ \E live_matches \in LiveAnswers : CheckLiveScores(live_matches)
    \/ \E c \in Subscribers : ToggleGoal(c, NoName)

GoalSpec == GoalInit /\ [][GoalNext]_vars

----------------------------------------------------------------------------
(* Specification of the live-score cycle under polls that never report a
   lower score than the one stored, with the goal declarations counted *)

\* no record of the answer is below the score stored for its match
Rising(live_matches) ==
    \A i \in 1..Len(live_matches) :
        LET match == live_matches[i] IN
        (match.id \in MatchIds /\ match.fullTime) =>
            /\ match.home >= PrevScore(live_scores, match.id).home
            /\ match.away >= PrevScore(live_scores, match.id).away

RisingInit ==
    /\ users \in [Subscribers -> GoalRows]
    /\ now = 0
    /\ utcDate = Kickoffs
    /\ ReminderIdle
    /\ live_scores = [m \in MatchIds |-> NoScore]
    /\ goal_log = <<>>
    /\ live_polls = <<>>
    /\ live_unprocessed = {}
    /\ goal_failed = {}
    /\ goal_events = [m \in MatchIds |-> 0]
    /\ LineupIdle
    /\ StoreIdle
    /\ DigestIdle
    /\ TimerIdle
    /\ BotIdle

RisingNext ==
    \/ \E live_matches \in {a \in LiveAnswers : Rising(a)} :
         CheckLiveScores(live_matches)
    \/ \E c \in Subscribers : ToggleGoal(c, NoName)

RisingSpec == RisingInit /\ [][RisingNext]_vars

----------------------------------------------------------------------------
(* Specification of the lineup cycle *)

LineupRows == {NoRow} \cup {[NewRow(NoName) EXCEPT !.lineup_notification = g] :
                              g \in {0, 1}}

LineupInit ==
    /\ users \in [Subscribers -> LineupRows]
    /\ now = 0
    /\ utcDate = LineupKickoffs
    /\ ReminderIdle
    /\ GoalIdle
    /\ LineupIdle
    /\ StoreIdle
    /\ DigestIdle
    /\ TimerIdle
    /\ BotIdle

\* the matches whose details the cycle will ask for
WillAsk(today_matches) ==
    IF GetUsersForLineupNotification(users) = <<>> THEN {}
    ELSE {today_matches[i].id : i \in
            {k \in 1..Len(today_matches) : LineupDue(lineup_sent, today_matches[k])}}

LineupNext ==
    \/ \E today_matches \in TodayAnswers :
         \E details \in [WillAsk(today_matches) -> DetailAnswers] :
            CheckLineups(today_matches, details)
    \/ \E c \in Subscribers : ToggleLineup(c, NoName)
    \/ LineupTick

LineupSpec == LineupInit /\ [][LineupNext]_vars

----------------------------------------------------------------------------
(* Specification of the lineup cycle run once at every */30 cron instant,  *)
(* with a gateway that answers every call, fixtures that stay TIMED or     *)
(* SCHEDULED, lineups published at least half an hour before kickoff and   *)
(* a first subscriber who keeps lineup messages on                         *)

\* the clock of this specification stops after this many cron periods
MaxPromptTicks == 4

\* kickoff instants: on a cron instant, and 5 and 20 minutes before one
PromptKickoffs == {60, 85, 100}

\* how long before kickoff the lineups of a fixture are published
PublicationLead == [m \in MatchIds |-> IF m = 1 THEN LineupPeriod ELSE 50]

PublishedAt(m) == utcDate[m] - PublicationLead[m]

\* get_today_matches(): both fixtures, each TIMED or SCHEDULED
PromptTodayAnswers ==
    {<<[id |-> 1, status |-> s1, utcDate |-> utcDate[1]],
       [id |-> 2, status |-> s2, utcDate |-> utcDate[2]]>> :
        s1 \in {"TIMED", "SCHEDULED"}, s2 \in {"TIMED", "SCHEDULED"}}

\* get_match_details(m): empty lineups before the publication, at least one
\* side from then on
PromptDetails(m) ==
    IF now >= PublishedAt(m)
    THEN {d \in [home_lineup : {0, 11}, away_lineup : {0, 11}] :
             d.home_lineup # 0 \/ d.away_lineup # 0}
    ELSE {[home_lineup |-> 0, away_lineup |-> 0]}

PromptInit ==
    /\ users \in [Subscribers -> LineupRows]
    /\ users["u1"] = [NewRow(NoName) EXCEPT !.lineup_notification = 1]
    /\ now = 0
    /\ utcDate \in [MatchIds -> PromptKickoffs]
    /\ ReminderIdle
    /\ GoalIdle
    /\ LineupIdle
    /\ StoreIdle
    /\ DigestIdle
    /\ running = [job \in CronJobs |-> IF job = "lineup_check" THEN 1 ELSE 0]
    /\ missed = {}
    /\ BotIdle

\* the instance the trigger of this instant started runs check_lineups
PromptCycle ==
    /\ running["lineup_check"] > 0
    /\ \E today_matches \in PromptTodayAnswers :
         \E details \in {d \in [WillAsk(today_matches) -> DetailAnswers] :
                            \A m \in DOMAIN d : d[m] \in PromptDetails(m)} :
            CheckLineups(today_matches, details)

\* the next */30 cron instant arrives once this instant's instance is over,
\* and its trigger starts an instance
PromptTick ==
    /\ running["lineup_check"] = 0
    /\ now + LineupPeriod <= MaxPromptTicks * LineupPeriod
    /\ now' = now + LineupPeriod
    /\ running' = [running EXCEPT !["lineup_check"] = @ + 1]
    /\ UNCHANGED <<users, utcDate, reminderVars, goalVars, lineupVars,
                   storeVars, digestVars, missed, botVars>>

PromptNext ==
    \/ PromptCycle
    \/ ToggleLineup("u2", NoName)
    \/ PromptTick

PromptSpec == PromptInit /\ [][PromptNext]_vars

----------------------------------------------------------------------------
(* Specification of the preference store: an empty table and any sequence  *)
(* of Database calls                                                       *)

StoreInit ==
    /\ users = [c \in Subscribers |-> NoRow]
    /\ now = 0
    /\ utcDate = Kickoffs
    /\ ReminderIdle
    /\ GoalIdle
    /\ LineupIdle
    /\ StoreIdle
    /\ DigestIdle
    /\ TimerIdle
    /\ BotIdle

StoreNext ==
    \/ \E c \in Subscribers, username \in StoreNames : StoreGetOrCreate(c, username)
    \/ \E c \in Subscribers, column \in UpdateColumns :
         \E value \in ColumnValues(column) : StoreUpdate(c, column, value)
    \/ \E c \in Subscribers, setting_name \in ToggleColumns : StoreToggle(c, setting_name)
    \/ \E hour \in QueryHours : StoreQueryMorning(hour)

StoreSpec == StoreInit /\ [][StoreNext]_vars

----------------------------------------------------------------------------
(* Specification of the morning digest cycle over one morning              *)

DigestRows ==
    {[NewRow(NoName) EXCEPT !.morning_notification = on,
                            !.morning_notification_hour = hour] :
        on \in {0, 1}, hour \in HourInputs}

DigestInit ==
    /\ users \in [Subscribers -> DigestRows]
    /\ now = DigestStart
    /\ utcDate = DigestKickoffs
    /\ ReminderIdle
    /\ GoalIdle
    /\ LineupIdle
    /\ StoreIdle
    /\ DigestIdle
    /\ TimerIdle
    /\ BotIdle

DigestNext ==
    \/ \E answers \in [Subscribers -> DigestAnswers], blocked \in SUBSET Subscribers :
         SendMorningNotifications(answers, blocked)
    \/ DigestTick

DigestSpec == DigestInit /\ [][DigestNext]_vars

----------------------------------------------------------------------------
(* Specification of the four cron jobs under the timer service: a trigger  *)
(* starts an instance of its job unless the job already has its maximum    *)
(* of running instances; the instance runs the handler and ends            *)

\* add_job is called without max_instances, so the timer service's default
\* of one running instance per job applies
MaxInstances == 1

\* (mutant) one instance more than the maximum is let in
MayStartSecond(job) == running[job] < MaxInstances + 1

\* the timer service's test before it submits a job
MayStart(job) == running[job] < MaxInstances

\* the cron trigger of the job is due
TriggerDue(job) ==
    CASE job = "match_reminder_check" -> plannerDue
      [] job = "morning_notification" -> MorningTrigger(now)
      [] OTHER -> TRUE

\* a trigger of the job arrives: an instance starts, or the run is skipped
StartCycle(job) ==
    /\ TriggerDue(job)
    /\ IF MayStart(job)
       THEN /\ running' = [running EXCEPT ![job] = @ + 1]
            /\ missed' = missed
       ELSE /\ running' = running
            /\ missed' = missed \cup {job}
    /\ UNCHANGED <<users, now, utcDate, reminderVars, goalVars, lineupVars,
                   storeVars, digestVars,
                   botVars>>

\* the clock of this specification stops after this many half hours
MaxCycleTicks == 1

\* 08:30 on day 1
CycleStart == DigestStart + 90

\* kickoffs at 09:30 and 10:00
CycleKickoffs == [m \in MatchIds |-> CycleStart + 30 + 30 * m]

\* half an hour passes once the instances of this instant have ended
CycleTick ==
    /\ now < CycleStart + MaxCycleTicks * LineupPeriod
    /\ \A job \in CronJobs : running[job] = 0
    /\ now' = now + LineupPeriod
    /\ plannerDue' = TRUE
    /\ UNCHANGED <<users, utcDate, match_jobs, jobstore, fired, goalVars,
                   lineupVars, storeVars, digestVars, timerVars,
                   botVars>>

\* the answers of the gateway in this specification
CycleLiveAnswers ==
    {<<LiveRecord(1, [home |-> 1, away |-> 0])>>,
     <<NullScore, LiveRecord(2, [home |-> 0, away |-> 1])>>}

CycleTodayMatches ==
    <<[id |-> 1, status |-> "TIMED", utcDate |-> utcDate[1]],
      [id |-> 2, status |-> "TIMED", utcDate |-> utcDate[2]]>>

CycleDetails == [home_lineup |-> 11, away_lineup |-> 11]

CycleInit ==
    /\ users = [c \in Subscribers |-> NewRow(NoName)]
    /\ now = CycleStart
    /\ utcDate = CycleKickoffs
    /\ ReminderIdle
    /\ GoalIdle
    /\ LineupIdle
    /\ StoreIdle
    /\ DigestIdle
    /\ TimerIdle
    /\ BotIdle

CycleNext ==
    \/ \E job \in CronJobs : StartCycle(job)
    \/ /\ running["morning_notification"] > 0
       /\ SendMorningNotifications([c \in Subscribers |-> UpcomingMatches(2)], {})
    \/ /\ running["match_reminder_check"] > 0
       /\ PlannerRun([c \in Subscribers |-> UpcomingMatches(1)])
    \/ /\ running["live_score_check"] > 0
       /\ \E live_matches \in CycleLiveAnswers : CheckLiveScores(live_matches)
    \/ /\ running["lineup_check"] > 0
       /\ CheckLineups(CycleTodayMatches,
                       [m \in WillAsk(CycleTodayMatches) |-> CycleDetails])
    \/ \E j \in jobstore : FireReminder(j)
    \/ CycleTick

CycleSpec == CycleInit /\ [][CycleNext]_vars

----------------------------------------------------------------------------
(* Specification of the cycles with a gateway whose requests may fail: a   *)
(* failed request gives an empty list, or no details                       *)

\* the gateway's answers when the request failed
NoMatches == {}
NoLiveMatches == <<>>
NoTodayMatches == <<>>

OutageNext ==
    \/ \E matches \in {UpcomingMatches(1), NoMatches} :
         PlannerRun([c \in Subscribers |-> matches])
    \/ \E live_matches \in CycleLiveAnswers \cup {NoLiveMatches} :
         CheckLiveScores(live_matches)
    \/ \E today_matches \in {CycleTodayMatches, NoTodayMatches} :
         \E details \in [WillAsk(today_matches) -> {CycleDetails, NoDetails}] :
            CheckLineups(today_matches, details)
    \/ \E matches \in {UpcomingMatches(2), NoMatches} :
         SendMorningNotifications([c \in Subscribers |-> matches], {})
    \/ \E j \in jobstore : FireReminder(j)
    \/ CycleTick

OutageSpec == CycleInit /\ [][OutageNext]_vars

----------------------------------------------------------------------------
(* Specification of the live-score cycle with failing deliveries: the      *)
(* first fixture reports any score, the second (0,0) or (1,1)              *)

PollScores ==
    [m \in MatchIds |->
        IF m = 1 THEN PolledScores \cup {[home |-> 2, away |-> 1]}
        ELSE {[home |-> 0, away |-> 0], [home |-> 1, away |-> 1]}]

PollAnswers ==
    {<<>>}
    \cup UNION {{<<LiveRecord(m, sc)>> : sc \in PollScores[m]} : m \in MatchIds}
    \cup {<<LiveRecord(1, s1), LiveRecord(2, s2)>> :
             s1 \in PollScores[1], s2 \in PollScores[2]}

\* Telegram delivers to every chat or to none
PollOutages == {{}, Subscribers}

PollNext ==
    \/ \E live_matches \in PollAnswers, blocked \in PollOutages :
         LiveScoreCycle(live_matches, blocked)
    \/ \E c \in Subscribers : ToggleGoal(c, NoName)

PollSpec == GoalInit /\ [][PollNext]_vars

----------------------------------------------------------------------------
(* Specification of a process lifetime: the planner, the two detectors,    *)
(* the reminders and the subscribers' preference updates, interleaved      *)

\* the gateway reports the first fixture in play, or none (before and after
\* it)
LifetimeLiveAnswers ==
    {<<>>, <<LiveRecord(1, [home |-> 1, away |-> 0])>>}

\* the subscriber who presses the settings buttons; the other keeps the
\* defaults
LifetimeUpdaters == {"u1"}

LifetimeNext ==
    \/ PlannerRun([c \in Subscribers |-> UpcomingMatches(1)])
    \/ \E live_matches \in LifetimeLiveAnswers : CheckLiveScores(live_matches)
    \/ CheckLineups(CycleTodayMatches,
                    [m \in WillAsk(CycleTodayMatches) |-> CycleDetails])
    \/ \E j \in jobstore : FireReminder(j)
    \/ \E c \in LifetimeUpdaters, l \in ReminderInputs : SetReminder(c, NoName, l)
    \/ \E c \in LifetimeUpdaters : ToggleGoal(c, NoName)
    \/ \E c \in LifetimeUpdaters : ToggleLineup(c, NoName)
    \/ CycleTick

LifetimeSpec == CycleInit /\ [][LifetimeNext]_vars

----------------------------------------------------------------------------
(* Specification of the digest cycle from 06:00 on, on a half-hour clock,  *)
(* with the subscribers changing their morning settings                    *)

\* the hours a subscriber chooses in this specification
MorningHours == {6, 8}

MorningRows ==
    {[NewRow(NoName) EXCEPT !.morning_notification = on,
                            !.morning_notification_hour = hour] :
        on \in {0, 1}, hour \in MorningHours}

\* the button callback set_morning_hour_<hour>
SetMorningHour(chat_id, username, hour) ==
    /\ users' = UpdateColumn(GetOrCreateUser(users, chat_id, username),
                             chat_id, "morning_notification_hour", hour)
    /\ users' # users
    /\ UNCHANGED <<now, utcDate, reminderVars, goalVars, lineupVars,
                   storeVars, digestVars, timerVars,
                   botVars>>

\* the button callback toggle_morning
ToggleMorning(chat_id, username) ==
    /\ users' = ToggleSetting(GetOrCreateUser(users, chat_id, username),
                              chat_id, "morning_notification")
    /\ UNCHANGED <<now, utcDate, reminderVars, goalVars, lineupVars,
                   storeVars, digestVars, timerVars,
                   botVars>>

\* the clock of this specification stops after this many half hours
MaxMorningTicks == 5

\* 06:00 on day 1
MorningStart == DayMinutes + 6 * 60

MorningTick ==
    /\ now < MorningStart + MaxMorningTicks * 30
    /\ now' = now + 30
    /\ UNCHANGED <<users, utcDate, reminderVars, goalVars, lineupVars,
                   storeVars, digestVars, timerVars,
                   botVars>>

MorningInit ==
    /\ users \in [Subscribers -> MorningRows]
    /\ now = MorningStart
    /\ utcDate = DigestKickoffs
    /\ ReminderIdle
    /\ GoalIdle
    /\ LineupIdle
    /\ StoreIdle
    /\ DigestIdle
    /\ TimerIdle
    /\ BotIdle

MorningNext ==
    \/ SendMorningNotifications([c \in Subscribers |-> UpcomingMatches(2)], {})
    \/ \E c \in Subscribers, hour \in MorningHours : SetMorningHour(c, NoName, hour)
    \/ \E c \in Subscribers : ToggleMorning(c, NoName)
    \/ MorningTick

MorningSpec == MorningInit /\ [][MorningNext]_vars

----------------------------------------------------------------------------
(* Specification of the preference store called with any integer and any   *)
(* column                                                                  *)

\* integers inside and outside the ranges of the two numeric settings
RangeValues(column) ==
    IF column = "morning_notification_hour" THEN {-1, 24} ELSE {-5, 30}

\* the two numeric settings
RangeColumns == {"morning_notification_hour", "match_reminder_minutes"}

RangeNext ==
    \/ \E c \in Subscribers : StoreGetOrCreate(c, NoName)
    \/ \E c \in Subscribers, column \in RangeColumns :
         \E value \in RangeValues(column) : StoreUpdate(c, column, value)
    \/ \E c \in Subscribers, setting_name \in RangeColumns :
         StoreToggle(c, setting_name)

RangeSpec == StoreInit /\ [][RangeNext]_vars

----------------------------------------------------------------------------
(* Specification of the lineup cycle with failing deliveries: both         *)
(* fixtures not started, their lineups published                           *)

\* Telegram delivers to every chat or to none
LineupOutages == {{}, Subscribers}

DeliveryNext ==
    \/ \E blocked \in LineupOutages :
         LineupCycle(CycleTodayMatches,
                     [m \in WillAsk(CycleTodayMatches) |-> CycleDetails], blocked)
    \/ \E c \in Subscribers : ToggleLineup(c, NoName)
    \/ LineupTick

DeliverySpec == LineupInit /\ [][DeliveryNext]_vars

----------------------------------------------------------------------------
(* Specification of the /restart command *)

RestartInit ==
    /\ users = [c \in Subscribers |-> NoRow]
    /\ now = 0
    /\ utcDate = Kickoffs
    /\ ReminderIdle
    /\ GoalIdle
    /\ LineupIdle
    /\ StoreIdle
    /\ DigestIdle
    /\ TimerIdle
    /\ admin \in AdminConfigs
    /\ RestartIdle

RestartNext ==
    \/ \E chat \in RestartCallers, outcome \in RestartOutcomes :
         RestartCommand(chat, outcome)
    \/ SendRestartSuccessMessage

RestartSpec == RestartInit /\ [][RestartNext]_vars

----------------------------------------------------------------------------
(* Specification of two callers of toggle_setting on one users table       *)

RaceRows == {NoRow} \cup {[NewRow(NoName) EXCEPT !.goal_notification = g] :
                            g \in {0, 1}}

RaceInit ==
    /\ users \in [Subscribers -> RaceRows]
    /\ now = 0
    /\ utcDate = Kickoffs
    /\ ReminderIdle
    /\ GoalIdle
    /\ LineupIdle
    /\ last_call = NoCall
    /\ upserted = {}
    /\ toggles = [t \in Callers |-> IdleCaller]
    /\ toggle_start = users
    /\ DigestIdle
    /\ TimerIdle
    /\ BotIdle

RaceNext ==
    \/ \E t \in Callers, c \in Subscribers, setting_name \in ToggleColumns :
         ToggleRead(t, c, setting_name)
    \/ \E t \in Callers : ToggleWrite(t)

RaceSpec == RaceInit /\ [][RaceNext]_vars

----------------------------------------------------------------------------
(* Claims about the reminder planner *)

\* the pending jobs of one (subscriber, match) pair
Pending(id) == {j \in jobstore : <<j.chat_id, j.match_id>> = id}

\* a planner run: the cron trigger of this instant is consumed
PlannerStep == plannerDue /\ ~plannerDue'

\* C1: at most one pending reminder job per (subscriber, match) pair in every
\* reachable state; a pair is scheduled at most once however often the
\* planner runs (pending jobs plus firings never exceed one).
C1_OneJobPerPair ==
    \A id \in JobIds :
        /\ Cardinality(Pending(id)) <= 1
        /\ Cardinality(Pending(id)) + Len(fired[id]) <= 1

\* C1 witness: the planner has run again while the pair's job was pending and
\* its reminder instant was inside the look-ahead window at both runs, with
\* the lead unchanged: still exactly one job
C1_Witness ==
    /\ now >= PlannerPeriod
    /\ ~plannerDue
    /\ \E c \in Subscribers : \E j \in Pending(<<c, 1>>) :
          /\ users[c] # NoRow
          /\ users[c].match_reminder_minutes = j.minutes
          /\ now - PlannerPeriod < j.run_date
          /\ j.run_date < now - PlannerPeriod + 120
          /\ now < j.run_date
          /\ Pending(<<c, 1>>) = {j}

\* C2: every job the planner creates fires exactly once, at its scheduled
\* instant, and is then no longer pending; no pair has two firings.
C2_FiredExactlyOnce ==
    /\ [](\A id \in JobIds :
            /\ Len(fired[id]) <= 1
            /\ \A i \in 1..Len(fired[id]) : fired[id][i].at = fired[id][i].run_date
            /\ fired[id] # <<>> => Pending(id) = {}
            /\ \A j \in Pending(id) : j.run_date >= now)
    /\ \A id \in JobIds :
          (Pending(id) # {}) ~> (Len(fired[id]) = 1 /\ Pending(id) = {})

\* C2 witness: a reminder has fired with 60 minutes of lead, the subscriber
\* has since chosen 30, and the planner has run again while kickoff - 30 was
\* inside the look-ahead window: no second job
C2_Witness ==
    \E c \in Subscribers :
        /\ Len(fired[<<c, 1>>]) = 1
        /\ fired[<<c, 1>>][1].minutes = 60
        /\ users[c].match_reminder_minutes = 30
        /\ ~plannerDue
        /\ now > fired[<<c, 1>>][1].at
        /\ now < utcDate[1] - 30
        /\ Pending(<<c, 1>>) = {}

\* C3: a planner run creates a job for (s, m) exactly when s has lead > 0, no
\* job was registered for (s, m), and kickoff - lead is strictly between now
\* and now + 2 hours; the job's fire instant is kickoff - lead; nothing else
\* creates jobs, and no job ever has lead 0.
C3_CreatesIffInWindow ==
    /\ [][\A c \in Subscribers, m \in MatchIds :
            LET created == Pending(<<c, m>>)' \ Pending(<<c, m>>)
                lead == users[c].match_reminder_minutes
            IN IF PlannerStep /\ users[c] # NoRow
               THEN /\ created # {} <=>
                         /\ lead > 0
                         /\ <<c, m>> \notin match_jobs
                         /\ now < utcDate[m] - lead
                         /\ utcDate[m] - lead < now + 120
                    /\ created \subseteq
                         {[chat_id |-> c, match_id |-> m,
                           run_date |-> utcDate[m] - lead, minutes |-> lead]}
               ELSE created = {}]_vars
    /\ [](\A j \in jobstore : j.minutes > 0)

\* C3 witness: after a planner run, a subscriber with lead 0 has no job for a
\* fixture for which the other subscriber has one
C3_Witness ==
    /\ ~plannerDue
    /\ users["u2"] # NoRow
    /\ users["u2"].match_reminder_minutes = 0
    /\ \E j \in Pending(<<"u1", 1>>) : j.run_date = utcDate[1] - j.minutes
    /\ Pending(<<"u2", 1>>) = {}
    /\ <<"u2", 1>> \notin match_jobs
    /\ now < utcDate[1] - 60

\* C4: lead 30, planner every 5 minutes, gateway answering every run: the
\* fixture 90 minutes away gets a job firing 60 minutes from the start on the
\* first run; the fixture 4 hours away gets none on that run, none before
\* kickoff - lead is less than 2 hours away, and one before its reminder
\* instant.
C4_HorizonScenario ==
    /\ [][(now = 0 /\ PlannerStep) =>
            /\ Pending(<<"u1", 1>>)' =
                 {[chat_id |-> "u1", match_id |-> 1, run_date |-> 60, minutes |-> 30]}
            /\ Pending(<<"u1", 2>>)' = {}]_vars
    /\ [](<<"u1", 2>> \in match_jobs => 240 - 30 < now + 120)
    /\ [](now >= 240 - 30 =>
            \/ Pending(<<"u1", 2>>) =
                 {[chat_id |-> "u1", match_id |-> 2, run_date |-> 210, minutes |-> 30]}
            \/ fired[<<"u1", 2>>] = <<[at |-> 210, run_date |-> 210, minutes |-> 30]>>)
    /\ <>(Pending(<<"u1", 2>>) =
            {[chat_id |-> "u1", match_id |-> 2, run_date |-> 210, minutes |-> 30]})

\* C4 witness: the first reminder has fired at minute 60 and the job of the
\* second fixture is pending before its reminder instant
C4_Witness ==
    /\ fired[<<"u1", 1>>] = <<[at |-> 60, run_date |-> 60, minutes |-> 30]>>
    /\ Pending(<<"u1", 2>>) =
         {[chat_id |-> "u1", match_id |-> 2, run_date |-> 210, minutes |-> 30]}
    /\ now < 210

\* the firing a job produces
FiringOf(j) == [at |-> j.run_date, run_date |-> j.run_date, minutes |-> j.minutes]

\* C5: once a job exists for (s, m), no step (in particular no change of the
\* subscriber's lead, also to 0) alters or cancels it or adds a second job:
\* it stays pending unchanged until it fires, once, at its instant with the
\* lead recorded at scheduling, and it does fire; a changed lead shows only
\* in jobs created afterwards.
C5_LeadChangeNotRetroactive ==
    /\ [][/\ \A j \in jobstore :
               LET id == <<j.chat_id, j.match_id>> IN
               \/ Pending(id)' = {j} /\ fired'[id] = <<>>
               \/ Pending(id)' = {} /\ fired'[id] = <<FiringOf(j)>>
          /\ \A id \in JobIds :
               fired[id] # <<>> => fired'[id] = fired[id] /\ Pending(id)' = {}
          /\ users' # users => jobstore' = jobstore /\ fired' = fired
          /\ \A j \in jobstore' \ jobstore :
               j.minutes = users[j.chat_id].match_reminder_minutes]_vars
    /\ \A id \in JobIds :
          (\E j \in Pending(id) :
              users[j.chat_id].match_reminder_minutes # j.minutes)
             ~> (Pending(id) = {} /\ Len(fired[id]) = 1)

\* C5 witness: a reminder scheduled with lead 30 has fired although the
\* subscriber has switched reminders off since, and a second subscriber's job
\* for the later fixture carries the lead 60 chosen after the first job
C5_Witness ==
    /\ fired[<<"u1", 1>>] = <<[at |-> 60, run_date |-> 60, minutes |-> 30]>>
    /\ users["u1"].match_reminder_minutes = 0
    /\ fired[<<"u2", 1>>] = <<[at |-> 60, run_date |-> 60, minutes |-> 30]>>
    /\ Pending(<<"u2", 2>>) =
         {[chat_id |-> "u2", match_id |-> 2, run_date |-> 180, minutes |-> 60]}

----------------------------------------------------------------------------
(* Claims about goal detection *)

\* the score a match is compared against: its entry, or (0,0)
StoredScore(scores, m) ==
    IF scores[m] = NoScore THEN <<0, 0>> ELSE <<scores[m].home, scores[m].away>>

\* the number of messages of a log for one subscriber and match
NumSent(log, c, m) ==
    Cardinality({i \in 1..Len(log) : log[i].chat_id = c /\ log[i].match_id = m})

GoalDeclared(log, m) == \E i \in 1..Len(log) : log[i].match_id = m

WantsGoals(c) == users[c] # NoRow /\ users[c].goal_notification = 1

PollsFor(polls, m) == {i \in 1..Len(polls) : polls[i].match_id = m}

CycleStep ==
    goal_log' # goal_log \/ live_scores' # live_scores \/ live_polls' # live_polls

\* C6: in a live-score cycle a goal is declared for a polled match iff its
\* home or away score is strictly greater than the stored value (absent:
\* (0,0)), and the stored value becomes the polled score; stored (1,0) and
\* poll (1,0): no goal, stored stays (1,0); stored (1,0) and poll (2,0): one
\* message per goal-enabled subscriber, naming the home team, and stored
\* becomes (2,0).  A match that is not polled has no goal and keeps its entry.
C6_GoalIffScoreIncreased ==
    [][CycleStep =>
         \A m \in MatchIds :
            /\ PollsFor(live_polls', m) = {} =>
                  ~GoalDeclared(goal_log', m) /\ live_scores'[m] = live_scores[m]
            /\ \A i \in PollsFor(live_polls', m) :
                 LET before == StoredScore(live_scores, m)
                     polled == <<live_polls'[i].home_score, live_polls'[i].away_score>>
                 IN /\ GoalDeclared(goal_log', m) <=>
                          (polled[1] > before[1] \/ polled[2] > before[2])
                    /\ live_scores'[m] # NoScore
                    /\ StoredScore(live_scores', m) = polled
                    /\ (before = <<1, 0>> /\ polled = <<1, 0>>)
                          => ~GoalDeclared(goal_log', m)
                    /\ (before = <<1, 0>> /\ polled = <<2, 0>>)
                          => /\ \A c \in Subscribers :
                                  NumSent(goal_log', c, m) =
                                     IF WantsGoals(c) THEN 1 ELSE 0
                             /\ \A k \in 1..Len(goal_log') :
                                  goal_log'[k].match_id = m =>
                                     /\ goal_log'[k].scoring_team = goal_log'[k].home_name
                                     /\ goal_log'[k].home_score = 2
                                     /\ goal_log'[k].away_score = 0]_vars

\* C6 witness: a poll of (2,0) against a stored (1,0) has declared one home
\* goal and stored (2,0)
C6_Witness ==
    /\ live_scores[1] # NoScore
    /\ StoredScore(live_scores, 1) = <<2, 0>>
    /\ \E i \in PollsFor(live_polls, 1) :
          /\ live_polls[i].prev_home = 1 /\ live_polls[i].prev_away = 0
          /\ live_polls[i].home_score = 2 /\ live_polls[i].away_score = 0
    /\ Len(goal_log) = 1
    /\ goal_log[1].match_id = 1
    /\ goal_log[1].scoring_team = "A"

\* C7: when a cycle declares a goal for a match, every subscriber with
\* goalEnabled gets exactly one message for it and no other subscriber gets
\* any; the message names the side whose score rose (home "A" for a move
\* from (0,0) to (1,0)) and carries both names and the new score.
C7_GoalFanOut ==
    [][CycleStep =>
         /\ \A m \in MatchIds :
              GoalDeclared(goal_log', m) =>
                 \A c \in Subscribers :
                    NumSent(goal_log', c, m) = IF WantsGoals(c) THEN 1 ELSE 0
         /\ \A k \in 1..Len(goal_log') :
              LET msg == goal_log'[k]
                  f == Fixture(msg.match_id)
                  before == StoredScore(live_scores, msg.match_id)
              IN /\ msg.chat_id \in Subscribers
                 /\ msg.home_name = f.home_name /\ msg.away_name = f.away_name
                 /\ <<msg.home_score, msg.away_score>> =
                       StoredScore(live_scores', msg.match_id)
                 /\ (msg.home_score > before[1] /\ msg.away_score <= before[2])
                       => msg.scoring_team = f.home_name
                 /\ (msg.away_score > before[2] /\ msg.home_score <= before[1])
                       => msg.scoring_team = f.away_name]_vars

\* C7 witness: the score went from (0,0) to (1,0); the enabled subscriber got
\* the one message, naming "A"; the disabled subscriber got none
C7_Witness ==
    /\ users["u1"] # NoRow /\ users["u1"].goal_notification = 0
    /\ users["u2"] # NoRow /\ users["u2"].goal_notification = 1
    /\ \E i \in PollsFor(live_polls, 1) :
          /\ live_polls[i].prev_home = 0 /\ live_polls[i].prev_away = 0
          /\ live_polls[i].home_score = 1 /\ live_polls[i].away_score = 0
    /\ Len(goal_log) = 1
    /\ goal_log[1].chat_id = "u2"
    /\ goal_log[1].match_id = 1
    /\ goal_log[1].home_score = 1 /\ goal_log[1].away_score = 0
    /\ goal_log[1].scoring_team = "A"

----------------------------------------------------------------------------
(* Claims about the lineup cycle *)

CallsFor(m) == {i \in 1..Len(details_calls) : details_calls[i].match_id = m}

HasLineup(details) ==
    details # NoDetails /\ (details.home_lineup > 0 \/ details.away_lineup > 0)

\* C8: over any number of lineup cycles, each subscriber is sent at most one
\* lineup message per match.
C8_LineupAtMostOnce ==
    \A id \in JobIds : lineup_count[id] <= 1

\* C8 witness: the lineup of match 1 was sent in an earlier cycle; the latest
\* cycle, with match 1 still inside its window, asked only for match 2 and
\* sent nothing for match 1
C8_Witness ==
    /\ lineup_count[<<"u1", 1>>] = 1
    /\ 1 \in lineup_sent
    /\ 0 <= utcDate[1] - now /\ utcDate[1] - now <= 60
    /\ CallsFor(1) = {}
    /\ CallsFor(2) # {}
    /\ NumSent(lineup_log, "u1", 1) = 0

\* C9: a cycle asks for a match's details, and so sends its lineup, only if
\* the match's status is SCHEDULED or TIMED and kickoff is 0 to 60 minutes
\* away (both ends included) at that cycle.
C9_LineupOnlyInWindow ==
    /\ \A i \in 1..Len(details_calls) :
          /\ details_calls[i].status \in {"SCHEDULED", "TIMED"}
          /\ details_calls[i].time_until_match >= 0
          /\ details_calls[i].time_until_match <= 60
    /\ \A i \in 1..Len(lineup_log) : CallsFor(lineup_log[i].match_id) # {}

\* C9 witness: a lineup was sent at the very minute of kickoff
C9_Witness ==
    \E i \in 1..Len(details_calls) :
        /\ details_calls[i].time_until_match = 0
        /\ NumSent(lineup_log, "u1", details_calls[i].match_id) = 1

\* C10: when the details of an eligible match come back with both lineups
\* empty, nothing is sent and the match is not marked as sent; when a cycle
\* finds at least one lineup non-empty (also after earlier empty answers),
\* the message is sent and the match is marked.
C10_EmptyLineupRetried ==
    \A i \in 1..Len(details_calls) :
        LET call == details_calls[i] IN
        /\ ~HasLineup(call.details) =>
              /\ call.match_id \notin lineup_sent
              /\ \A c \in Subscribers : NumSent(lineup_log, c, call.match_id) = 0
        /\ HasLineup(call.details) =>
              /\ call.match_id \in lineup_sent
              /\ \E c \in Subscribers : NumSent(lineup_log, c, call.match_id) = 1

\* C10 witness: the lineups of match 1 were empty in an earlier cycle, and a
\* later cycle inside the window found one and sent it
C10_Witness ==
    /\ 1 \in lineup_empty
    /\ 1 \in lineup_sent
    /\ \E i \in CallsFor(1) : HasLineup(details_calls[i].details)
    /\ NumSent(lineup_log, "u1", 1) = 1

----------------------------------------------------------------------------
(* Claims about the preference store *)

Elements(seq) == {seq[i] : i \in 1..Len(seq)}

NoRepeats(seq) == \A i, j \in 1..Len(seq) : seq[i] = seq[j] => i = j

SettingColumns == UpdateColumns

\* C11: get_users_for_morning_notification(h) returns exactly the
\* subscribers whose row has morning_notification = 1 and
\* morning_notification_hour = h, each once, whatever other hours are stored.
C11_MorningQueryExact ==
    [][last_call'.op = "get_users_for_morning_notification" =>
         /\ Elements(last_call'.rows) =
               {c \in Subscribers : /\ users[c] # NoRow
                                    /\ users[c].morning_notification = 1
                                    /\ users[c].morning_notification_hour =
                                          last_call'.value}
         /\ NoRepeats(last_call'.rows)]_vars

\* C11 witness: two enabled subscribers with different hours; the query for
\* hour 7 returned only the one whose hour is 7
C11_Witness ==
    /\ last_call.op = "get_users_for_morning_notification"
    /\ last_call.value = 7
    /\ last_call.rows = <<"u2">>
    /\ users["u1"] # NoRow /\ users["u2"] # NoRow
    /\ users["u1"].morning_notification = 1
    /\ users["u1"].morning_notification_hour = 9
    /\ users["u2"].morning_notification = 1
    /\ users["u2"].morning_notification_hour = 7

\* C14: each toggle_setting call on an existing row reads the stored value;
\* when two such calls on the same row and column follow each other, the
\* first returns the negation of the original value, the second returns the
\* original value, and the row is as it was before the first call.
C14_ToggleTwiceIsIdentity ==
    [][last_call'.op = "toggle_setting" /\ users[last_call'.chat_id] # NoRow =>
         LET c == last_call'.chat_id
             f == last_call'.column
         IN /\ last_call'.value = users[c][f]
            /\ (/\ last_call.op = "toggle_setting"
                /\ last_call.chat_id = c
                /\ last_call.column = f
                /\ last_call.value # -1)
                  => /\ users'[c][f] = last_call.value
                     /\ last_call.ret = 1 - last_call.value
                     /\ last_call'.ret = last_call.value
                     /\ users' = [users EXCEPT ![c][f] = last_call.value]]_vars

\* C14 witness: a toggle that read 0 and returned true has put the lineup
\* setting back to 1
C14_Witness ==
    /\ last_call.op = "toggle_setting"
    /\ last_call.chat_id = "u1"
    /\ last_call.column = "lineup_notification"
    /\ last_call.value = 0
    /\ last_call.ret = 1
    /\ users["u1"] = NewRow(NoName)

\* C15: an update_* or toggle_setting call for a chat id without a row
\* returns false, creates no row and changes no row; an update_* call returns
\* true exactly when the row existed.
C15_WriteToMissingRow ==
    [][last_call'.op \in {"update", "toggle_setting"} =>
         LET c == last_call'.chat_id IN
         /\ last_call'.op = "update" => last_call'.ret = BoolInt(users[c] # NoRow)
         /\ users[c] = NoRow => last_call'.ret = 0 /\ users' = users]_vars

\* C15 witness: an update for a chat id without a row returned false while
\* the other subscriber's row stayed as it was
C15_Witness ==
    /\ last_call.op = "update"
    /\ last_call.chat_id = "u2"
    /\ last_call.ret = 0
    /\ users["u2"] = NoRow
    /\ users["u1"] # NoRow
    /\ users["u1"].goal_notification = 0

\* C16: the table holds a row exactly for the chat ids passed to
\* get_or_create_user so far; no step removes a row; get_or_create_user on
\* an existing row changes at most its username, never a setting, and no
\* other row.
C16_GetOrCreateIdempotent ==
    /\ [](\A c \in Subscribers : users[c] # NoRow <=> c \in upserted)
    /\ [][/\ \A c \in Subscribers : users[c] # NoRow => users'[c] # NoRow
          /\ (last_call'.op = "get_or_create_user"
                 /\ users[last_call'.chat_id] # NoRow)
               => LET c == last_call'.chat_id IN
                  /\ \A column \in SettingColumns : users'[c][column] = users[c][column]
                  /\ users'[c].username \in {users[c].username, last_call'.username}
                  /\ \A d \in Subscribers \ {c} : users'[d] = users[d]]_vars

\* C16 witness: get_or_create_user on a row with changed settings has
\* replaced the username and kept the settings
C16_Witness ==
    /\ last_call.op = "get_or_create_user"
    /\ last_call.chat_id = "u1"
    /\ last_call.row # NoRow
    /\ last_call.row.username = NoName
    /\ last_call.row.goal_notification = 0
    /\ users["u1"].username = "ann"
    /\ users["u1"].goal_notification = 0
    /\ users["u1"].morning_notification_hour = 7

\* C17: two toggle_setting calls on the same row and column, interleaved in
\* any way, leave the stored value as it was before them, as two calls one
\* after the other do.
C17_NoLostUpdate ==
    (/\ \A t \in Callers : toggles[t].pc = "done"
     /\ toggles["t1"].chat_id = toggles["t2"].chat_id
     /\ toggles["t1"].setting_name = toggles["t2"].setting_name
     /\ toggle_start[toggles["t1"].chat_id] # NoRow)
       => users[toggles["t1"].chat_id][toggles["t1"].setting_name] =
             toggle_start[toggles["t1"].chat_id][toggles["t1"].setting_name]

----------------------------------------------------------------------------
(* Claims about the morning digest *)

\* kickoff of fixture id in Korean time, in minutes
KoreaKickoff(id) == utcDate[id] + KoreaOffset

\* the fixture is played on the day of t, or on the next day before 09:00
QualifiesForDigest(id, t) ==
    \/ Date(KoreaKickoff(id)) = Date(t)
    \/ /\ Date(KoreaKickoff(id)) = Date(t) + 1
       /\ KoreaKickoff(id) % DayMinutes < 9 * 60

DigestsTo(chat_id) ==
    {digest_log[i].matches :
        i \in {k \in 1..Len(digest_log) : digest_log[k].chat_id = chat_id}}

\* C12: the digest of a cycle lists exactly the returned fixtures played
\* today or tomorrow before 09:00: at 9:00, with fixtures at 20:00 today,
\* 03:00 tomorrow and 14:00 tomorrow, it lists the first two and not the
\* third.
C12_DigestContent ==
    \A i \in 1..Len(digest_seen) :
        LET e == digest_seen[i]
            expected == {id \in e.returned : QualifiesForDigest(id, e.at)}
        IN (expected # {} /\ ~e.failed) => DigestsTo(e.chat_id) = {expected}

\* C13: a selected subscriber for whom no returned fixture qualifies gets no
\* message and raises no error, and the cycle handles every selected
\* subscriber.
C13_NoQualifyingMatch ==
    /\ \A i \in 1..Len(digest_seen) :
          LET e == digest_seen[i] IN
          {id \in e.returned : QualifiesForDigest(id, e.at)} = {} =>
              DigestsTo(e.chat_id) = {} /\ ~e.failed
    /\ digest_seen # <<>> =>
          {digest_seen[i].chat_id : i \in 1..Len(digest_seen)} =
              {c \in Subscribers :
                  /\ users[c].morning_notification = 1
                  /\ users[c].morning_notification_hour = HourOf(digest_seen[1].at)}

\* the first of two selected subscribers had fixtures returned of which none
\* qualifies, and the second was handled after it
C13_Witness ==
    /\ Len(digest_seen) = 2
    /\ digest_seen[1].returned = {3}
    /\ ~QualifiesForDigest(3, digest_seen[1].at)
    /\ DigestsTo(digest_seen[1].chat_id) = {}
    /\ digest_seen[2].returned = {1, 2, 3}

----------------------------------------------------------------------------
(* Claims about the cycles *)

\* C18: an error raised while one match of a cycle is processed does not
\* keep the remaining matches of that invocation from being processed: the
\* live-score cycle leaves no match of the answer unprocessed.
C18_ErrorIsolation == live_unprocessed = {}

\* C19: a cron job never has two instances running at once: a trigger that
\* arrives while the job's instance is running is skipped.
C19_OneInstancePerCycle == \A job \in CronJobs : running[job] <= 1

\* the live-score job has written its state, its next instance is running,
\* and a further trigger was skipped
C19_Witness ==
    /\ live_scores[1] # NoScore
    /\ running["live_score_check"] = 1
    /\ "live_score_check" \in missed

\* an instance of the job ends in this step
CycleEnded(job) == running'[job] < running[job]

\* C20: the live-score cycle writes only the stored scores, the lineup cycle
\* only the sent lineups, the planner only the registry and the pending
\* jobs; the digest cycle and a firing reminder write none of these detector
\* states; no cycle writes the users table.
C20_DisjointWrites ==
    [][/\ CycleEnded("live_score_check") =>
            UNCHANGED <<users, reminderVars, lineupVars, digestVars>>
       /\ CycleEnded("lineup_check") =>
            UNCHANGED <<users, reminderVars, goalVars, digestVars>>
       /\ CycleEnded("match_reminder_check") =>
            UNCHANGED <<users, fired, goalVars, lineupVars, digestVars>>
       /\ CycleEnded("morning_notification") =>
            UNCHANGED <<users, reminderVars, goalVars, lineupVars>>
       /\ fired' # fired =>
            UNCHANGED <<users, goalVars, lineupVars, digestVars>>
       /\ users' = users]_vars

\* every cycle has run and a reminder has fired
C20_Witness ==
    /\ live_scores[1] # NoScore
    /\ lineup_sent # {}
    /\ match_jobs # {}
    /\ digest_seen # <<>>
    /\ \E id \in JobIds : fired[id] # <<>>
    /\ users = [c \in Subscribers |-> NewRow(NoName)]

----------------------------------------------------------------------------
(* Claims about the bot commands *)

\* C21: the restart flag is written and update.sh launched only for a caller
\* whose chat is the configured admin chat; any other caller gets the
\* no-permission reply and nothing else changes.
C21_RestartAdminOnly ==
    [][/\ (update_runs' # update_runs
             \/ (restart_flag' # restart_flag /\ restart_flag' # NoFlag)) =>
            last_command'.chat = admin.n
       /\ (last_command' # last_command /\ last_command'.chat # admin.n) =>
            /\ last_command'.replies = <<"no_permission">>
            /\ last_command'.warned
            /\ UNCHANGED <<users, now, utcDate, reminderVars, goalVars,
                           lineupVars, storeVars, digestVars, timerVars,
                           admin, restart_flag, update_runs>>]_vars

\* the admin has restarted the bot and another caller was then refused
C21_Witness ==
    /\ update_runs > 0
    /\ restart_flag = StrInt(admin.n)
    /\ last_command.chat # admin.n
    /\ last_command.replies = <<"no_permission">>

----------------------------------------------------------------------------
(* Claims about a failing gateway *)

\* C22: a cycle whose gateway call failed (empty answer, or no details)
\* sends nothing and leaves the registry, the pending jobs, the stored
\* scores and the sent lineups as they were, so that a later cycle starts
\* from the state the failed one found.
C22_FailedCallIsNoData ==
    [][/\ PlannerRun([c \in Subscribers |-> NoMatches]) =>
            UNCHANGED <<match_jobs, jobstore, fired>>
       /\ CheckLiveScores(NoLiveMatches) =>
            UNCHANGED live_scores /\ goal_log' = <<>>
       /\ CheckLineups(NoTodayMatches, <<>>) =>
            UNCHANGED <<lineup_sent, lineup_count>> /\ lineup_log' = <<>>
       /\ CheckLineups(CycleTodayMatches,
                       [m \in WillAsk(CycleTodayMatches) |-> NoDetails]) =>
            UNCHANGED <<lineup_sent, lineup_count>> /\ lineup_log' = <<>>
       /\ SendMorningNotifications([c \in Subscribers |-> NoMatches], {}) =>
            digest_log' = <<>>]_vars

\* the details request for match 2 failed inside its window after the
\* lineup of match 1 was sent, and match 2 is not marked; reminders are
\* registered and a score is stored
C22_Witness ==
    /\ 1 \in lineup_sent
    /\ 2 \notin lineup_sent
    /\ \E i \in 1..Len(details_calls) :
          /\ details_calls[i].match_id = 2
          /\ details_calls[i].details = NoDetails
          /\ details_calls[i].time_until_match \in 0..LineupWindow
    /\ lineup_log = <<>>
    /\ match_jobs # {}
    /\ live_scores[1] # NoScore

----------------------------------------------------------------------------
(* Claims about new subscribers *)

\* C23: a row created by get_or_create_user has morning_notification = 1,
\* morning_notification_hour = 9, match_reminder_minutes = 30,
\* goal_notification = 1 and lineup_notification = 1, is the row returned,
\* and is selected at once by the 9 o'clock morning query and by the goal
\* and lineup queries.
C23_NewSubscriberDefaults ==
    [][(last_call'.op = "get_or_create_user" /\ users[last_call'.chat_id] = NoRow) =>
          LET c == last_call'.chat_id
              row == users'[c]
          IN /\ row # NoRow
             /\ row.morning_notification = 1
             /\ row.morning_notification_hour = 9
             /\ row.match_reminder_minutes = 30
             /\ row.goal_notification = 1
             /\ row.lineup_notification = 1
             /\ last_call'.row = row
             /\ \E i \in 1..Len(GetUsersForMorningNotification(users', 9)) :
                   GetUsersForMorningNotification(users', 9)[i] = c
             /\ \E i \in 1..Len(GetUsersForGoalNotification(users')) :
                   GetUsersForGoalNotification(users')[i] = c
             /\ \E i \in 1..Len(GetUsersForLineupNotification(users')) :
                   GetUsersForLineupNotification(users')[i] = c]_vars

\* a row was created for u2 while the row of u1 has other settings, and the
\* 9 o'clock morning query has then returned u2 alone
C23_Witness ==
    /\ upserted = {"u1", "u2"}
    /\ users["u1"] # NoRow
    /\ users["u1"].morning_notification_hour = 7
    /\ users["u2"] # NoRow
    /\ users["u2"].morning_notification = 1
    /\ users["u2"].goal_notification = 1
    /\ last_call.op = "get_users_for_morning_notification"
    /\ last_call.value = 9
    /\ last_call.rows = <<"u2">>

----------------------------------------------------------------------------
(* Claims about the evaluation of a live match *)

\* the score observed by evaluation i of a cycle
Observed(polls, i) == <<polls[i].home_score, polls[i].away_score>>

\* the goal messages of a log for one match
MessagesFor(log, m) == {i \in 1..Len(log) : log[i].match_id = m}

\* C24: when both the home and the away score of a match are greater than
\* the stored values in one poll, one goal event is declared for it (one
\* message per goal-enabled subscriber), attributed to the home team, and
\* the own-team flag is that of the home team's identifier.
C24_HomeFirstOnDoubleRise ==
    [][CycleStep =>
         \A m \in MatchIds : \A i \in PollsFor(live_polls', m) :
            LET before == StoredScore(live_scores, m)
                polled == Observed(live_polls', i)
            IN (polled[1] > before[1] /\ polled[2] > before[2]) =>
                  /\ \A c \in Subscribers :
                        NumSent(goal_log', c, m) = IF WantsGoals(c) THEN 1 ELSE 0
                  /\ \A k \in MessagesFor(goal_log', m) :
                        /\ goal_log'[k].scoring_team = Fixture(m).home_name
                        /\ goal_log'[k].is_birmingham_goal =
                              (Fixture(m).home_id = 332)]_vars

\* both scores of the second fixture, whose home team is not the club, rose
\* in one poll; the message names the home team and is not an own goal
C24_Witness ==
    /\ \E i \in PollsFor(live_polls, 2) :
          /\ live_polls[i].prev_home = 0 /\ live_polls[i].prev_away = 0
          /\ live_polls[i].home_score = 1 /\ live_polls[i].away_score = 1
    /\ \E k \in MessagesFor(goal_log, 2) :
          /\ goal_log[k].scoring_team = "C"
          /\ ~goal_log[k].is_birmingham_goal
    /\ \E i \in PollsFor(live_polls, 1) :
          /\ live_polls[i].prev_home = 0 /\ live_polls[i].prev_away = 0
          /\ live_polls[i].home_score = 1 /\ live_polls[i].away_score = 1
    /\ \E k \in MessagesFor(goal_log, 1) :
          /\ goal_log[k].scoring_team = "A"
          /\ goal_log[k].is_birmingham_goal

EvaluationsOf(polls, live_matches) ==
    \/ polls = <<>>
    \/ /\ Len(polls) = Len(live_matches)
       /\ \A i \in 1..Len(polls) :
             /\ polls[i].match_id = live_matches[i].id
             /\ polls[i].home_score = live_matches[i].home
             /\ polls[i].away_score = live_matches[i].away

\* the matches of one answer of the gateway
LiveIdsOf(live_matches) == {live_matches[i].id : i \in 1..Len(live_matches)}

\* C26: a live-score cycle leaves the stored score of every match that is
\* not in the gateway's answer as it was and declares no goal for it.  (A
\* step is a cycle with some set of failing chats iff it is one with the
\* set of chats that failed; a cycle that evaluated nothing is told from a
\* preference update by the users table, and leaves every match alone.)
C26_AbsentMatchUntouched ==
    [][/\ (users' = users /\ live_polls' = <<>>) =>
             \A m \in MatchIds :
                /\ live_scores'[m] = live_scores[m]
                /\ MessagesFor(goal_log', m) = {}
       /\ \A live_matches \in PollAnswers :
             (/\ MatchIds \ LiveIdsOf(live_matches) # {}
              /\ live_polls' # <<>>
              /\ EvaluationsOf(live_polls', live_matches)
              /\ LiveScoreCycle(live_matches, goal_failed')) =>
                \A m \in MatchIds \ LiveIdsOf(live_matches) :
                   /\ live_scores'[m] = live_scores[m]
                   /\ MessagesFor(goal_log', m) = {}]_vars

\* the first fixture was polled alone and a goal declared while the second
\* keeps the score stored earlier
C26_Witness ==
    /\ Len(live_polls) = 1
    /\ live_polls[1].match_id = 1
    /\ MessagesFor(goal_log, 1) # {}
    /\ live_scores[2] = [home |-> 1, away |-> 1]

\* C27: after every live-score cycle the stored score of each match in the
\* gateway's answer is the score the answer reports, also when no
\* subscriber has goal notifications on.
C27_StoredAfterEveryCycle ==
    [][\A live_matches \in PollAnswers :
          (/\ EvaluationsOf(live_polls', live_matches)
           /\ LiveScoreCycle(live_matches, goal_failed')) =>
             \A i \in 1..Len(live_matches) :
                /\ live_scores'[live_matches[i].id] # NoScore
                /\ live_scores'[live_matches[i].id].home = live_matches[i].home
                /\ live_scores'[live_matches[i].id].away = live_matches[i].away]_vars

\* C28: a match without a stored score is compared against (0,0): its first
\* poll declares a goal iff the observed home or away score is above 0; at
\* (2,1) that is one event for the home team, at (0,0) none.
C28_FirstPollAgainstZero ==
    [][CycleStep =>
         \A m \in MatchIds : \A i \in PollsFor(live_polls', m) :
            live_scores[m] = NoScore =>
               LET polled == Observed(live_polls', i) IN
               /\ (MessagesFor(goal_log', m) # {}) <=> (polled[1] > 0 \/ polled[2] > 0)
               /\ polled = <<0, 0>> => MessagesFor(goal_log', m) = {}
               /\ polled = <<2, 1>> =>
                     /\ \A c \in Subscribers :
                           NumSent(goal_log', c, m) = IF WantsGoals(c) THEN 1 ELSE 0
                     /\ \A k \in MessagesFor(goal_log', m) :
                           goal_log'[k].scoring_team = Fixture(m).home_name]_vars

\* the first fixture was first seen at (2,1): one message, for the home team;
\* the second was first seen at (0,0): none
C28_Witness ==
    /\ \E i \in PollsFor(live_polls, 1) :
          /\ live_polls[i].prev_home = 0 /\ live_polls[i].prev_away = 0
          /\ live_polls[i].home_score = 2 /\ live_polls[i].away_score = 1
    /\ Len(goal_log) = 1
    /\ goal_log[1].match_id = 1
    /\ goal_log[1].scoring_team = "A"
    /\ \E i \in PollsFor(live_polls, 2) :
          live_polls[i].home_score = 0 /\ live_polls[i].away_score = 0
    /\ live_scores[2] = [home |-> 0, away |-> 0]

----------------------------------------------------------------------------
(* Claims about the recipients of a lineup *)

WantsLineup(c) == users[c] # NoRow /\ users[c].lineup_notification = 1

\* C29: a lineup cycle that gets at least one non-empty lineup for an
\* eligible match sends one message to every subscriber whose lineup
\* notifications are on and none to the others; a match is marked as sent
\* only by a cycle that has sent its lineup to each of them; a cycle run
\* while no subscriber has them on marks nothing.  (A step that is neither
\* a preference update nor the clock's is a cycle.)
C29_LineupFanOut ==
    [][(users' = users /\ now' = now) =>
         /\ \A i \in 1..Len(details_calls') :
               HasLineup(details_calls'[i].details) =>
                  \A c \in Subscribers :
                     NumSent(lineup_log', c, details_calls'[i].match_id) =
                        IF WantsLineup(c) THEN 1 ELSE 0
         /\ \A m \in lineup_sent' \ lineup_sent :
               /\ \E c \in Subscribers : WantsLineup(c)
               /\ \A c \in Subscribers :
                     WantsLineup(c) => NumSent(lineup_log', c, m) = 1
         /\ (\A c \in Subscribers : ~WantsLineup(c)) =>
               lineup_sent' = lineup_sent /\ lineup_log' = <<>>]_vars

\* one subscriber has lineup notifications on and one has them off; the
\* away lineup alone was published, the first got the message, the second
\* did not, and the match is marked
C29_Witness ==
    /\ WantsLineup("u1") /\ users["u2"] # NoRow /\ ~WantsLineup("u2")
    /\ \E i \in CallsFor(1) :
          /\ details_calls[i].details # NoDetails
          /\ details_calls[i].details.home_lineup = 0
          /\ details_calls[i].details.away_lineup = 11
    /\ NumSent(lineup_log, "u1", 1) = 1
    /\ NumSent(lineup_log, "u2", 1) = 0
    /\ 1 \in lineup_sent

----------------------------------------------------------------------------
(* Claims about the growth of the detectors' and the planner's state *)

\* the matches with a stored score
LiveKeys(scores) == {m \in DOMAIN scores : scores[m] # NoScore}

\* C30: no step of the process (a planner, live-score or lineup cycle, a
\* reminder firing, a preference update, the clock) takes a match out of
\* lineup_sent, a key out of live_scores, or a (subscriber, match) key out
\* of the reminder registry.
C30_StateOnlyGrows ==
    [][/\ lineup_sent \subseteq lineup_sent'
       /\ LiveKeys(live_scores) \subseteq LiveKeys(live_scores')
       /\ match_jobs \subseteq match_jobs']_vars

\* the reminder of the first subscriber for the first fixture has fired and
\* its key is still registered; the fixture is marked in lineup_sent and has
\* a stored score although the latest live cycle evaluated nothing; the
\* subscriber has since switched lineup and goal messages off
C30_Witness ==
    /\ fired[JobId("u1", 1)] # <<>>
    /\ \A j \in jobstore : JobId(j.chat_id, j.match_id) # JobId("u1", 1)
    /\ JobId("u1", 1) \in match_jobs
    /\ 1 \in lineup_sent
    /\ 1 \in LiveKeys(live_scores)
    /\ live_polls = <<>>
    /\ users["u1"].lineup_notification = 0
    /\ users["u1"].goal_notification = 0

----------------------------------------------------------------------------
(* Claims about the recipients of the digest *)

\* the subscribers a digest cycle has handled
HandledBy(seen) == {seen[i].chat_id : i \in 1..Len(seen)}

\* C31: a digest cycle runs at minute 0 of an hour from 7 to 11 only; it
\* handles a subscriber, and so sends that subscriber a digest, only if the
\* subscriber's row as the cycle reads it has morning notifications on and
\* the current hour as its morning hour.  (A step that is neither a
\* preference update nor the clock's is a cycle.)
C31_DigestOnlyToSelected ==
    [][(users' = users /\ now' = now) =>
         /\ now % 60 = 0
         /\ (now % DayMinutes) \div 60 >= 7
         /\ (now % DayMinutes) \div 60 <= 11
         /\ \A c \in HandledBy(digest_seen') :
               /\ users[c].morning_notification = 1
               /\ users[c].morning_notification_hour = (now % DayMinutes) \div 60
         /\ \A k \in 1..Len(digest_log') :
               digest_log'[k].chat_id \in HandledBy(digest_seen')]_vars

\* the 08:00 cycle handled the first subscriber, whose hour is 8, and not
\* the second, whose hour is 8 too but whose morning notifications are off
C31_Witness ==
    /\ now = DayMinutes + 8 * 60
    /\ HandledBy(digest_seen) = {"u1"}
    /\ digest_seen[1].at = now
    /\ users["u1"].morning_notification = 1
    /\ users["u1"].morning_notification_hour = 8
    /\ users["u2"].morning_notification = 0
    /\ users["u2"].morning_notification_hour = 8

----------------------------------------------------------------------------
(* Claims about the ranges of the settings *)

\* C32: every subscriber's row has its morning hour in 0..23 and its
\* reminder lead at 0 or more, whatever integer the update methods are
\* given and whatever column is toggled.
C32_SettingsInRange ==
    \A c \in Subscribers :
        users[c] # NoRow =>
            /\ users[c].morning_notification_hour >= 0
            /\ users[c].morning_notification_hour <= 23
            /\ users[c].match_reminder_minutes >= 0

----------------------------------------------------------------------------
(* Claims about the record get_or_create_user returns *)

\* C33: the record get_or_create_user returns is the record stored for the
\* chat when the call returns, also when the call has changed the username.
C33_ReturnedIsStored ==
    last_call.op = "get_or_create_user" =>
        last_call.row = users[last_call.chat_id]

----------------------------------------------------------------------------
(* Claims about the delivery of a lineup *)

\* C34: a lineup cycle marks a match as sent only if its lineup message was
\* delivered to at least one subscriber in that cycle.
C34_MarkedOnlyIfDelivered ==
    [][(users' = users /\ now' = now) =>
         \A m \in lineup_sent' \ lineup_sent :
            \E k \in 1..Len(lineup_log') :
               /\ lineup_log'[k].match_id = m
               /\ lineup_log'[k].chat_id \notin lineup_failed']_vars

----------------------------------------------------------------------------
(* Claims about the number of goal declarations *)

\* C38: while the polls of a match never report a lower score than before,
\* the live cycles that declared a goal for it number at most the goals of
\* its stored score, home plus away
C38_EventsWithinScore ==
    \A m \in MatchIds :
        goal_events[m] <= StoredScore(live_scores, m)[1]
                            + StoredScore(live_scores, m)[2]

\* two goals were declared one at a time for a match that stands at 1-1, and
\* the latest cycle polled 1-1 again and declared nothing
C38_Witness ==
    /\ goal_events[1] = 2
    /\ live_scores[1] = [home |-> 1, away |-> 1]
    /\ goal_log = <<>>
    /\ \E i \in 1..Len(live_polls) :
         /\ live_polls[i].match_id = 1
         /\ live_polls[i].home_score = 1 /\ live_polls[i].prev_home = 1
         /\ live_polls[i].away_score = 1 /\ live_polls[i].prev_away = 1

----------------------------------------------------------------------------
(* Claims about reminders of a fixture whose kickoff is moved *)

\* C40: when a planner run has ended, every pending reminder job fires at
\* the kickoff the gateway reported to that run minus the lead minutes
\* recorded in the job, also when an earlier run was told another kickoff
C40_JobsFollowKickoff ==
    [][(plannerDue /\ ~plannerDue') =>
          \A j \in jobstore' :
              j.run_date = utcDate'[j.match_id] - j.minutes]_vars

----------------------------------------------------------------------------
(* Claims about the response time of the lineup cycle *)

\* C37: for a fixture that stays TIMED or SCHEDULED, with a subscriber who
\* has lineup messages on, a gateway that answers and lineups published at
\* least 30 minutes before kickoff: once the cycle of the last cron instant
\* at or before kickoff has ended, the lineup message of the fixture has
\* been sent to that subscriber
C37_LineupBeforeKickoff ==
    \A m \in MatchIds :
        (\/ now > utcDate[m]
         \/ /\ running["lineup_check"] = 0
            /\ now + LineupPeriod > utcDate[m]) =>
            /\ m \in lineup_sent
            /\ lineup_count[<<"u1", m>>] >= 1

\* the second fixture has kicked off; its lineups came back empty at one
\* cycle inside the hour and were sent by a later one
C37_Witness ==
    /\ now >= utcDate[2]
    /\ 2 \in lineup_empty
    /\ 2 \in lineup_sent
    /\ lineup_count[<<"u1", 2>>] = 1

====
